---- MODULE Spec2Model ----
(***************************************************************************)
(* Process orchestration and agent-protocol adapter of USB-IDE.            *)
(*                                                                         *)
(*   src/src/process/mod.rs  line-streaming process engine                 *)
(*   src/src/ui/mod.rs       orchestrator (App): capability negotiation,   *)
(*                           drain loop, retry protocol, Codex log         *)
(*   src/src/codex/mod.rs    argv construction, diagnostic translation     *)
(*                                                                         *)
(* Texts (output lines, log messages, prompts) are sequences of tokens; a  *)
(* token is a word or a phrase.  Option<T> is a sequence of length <= 1:   *)
(* None is << >> and Some(x) is << x >>.                                   *)
(***************************************************************************)
EXTENDS Integers, Sequences, FiniteSets, TLC

\* ------------------------------------------------------------------ bounds
\* total number of stream_subprocess calls that create a handle
MaxSpawns == 5
\* number of lines one child writes (both streams together)
MaxLines == 1
\* number of prompts the user submits
MaxPrompts == 2
\* number of other user actions (toggles, clearing the logs)
MaxUserActions == 1
\* number of direct spawn_process calls of the engine specification
MaxEngineCalls == 2

\* ------------------------------------------------------------- Option<T>
None == << >>
Some(x) == << x >>
IsSome(o) == Len(o) = 1
Unwrap(o) == o[1]

Handles == 1..MaxSpawns

\* ------------------------------------------------------------ variables
VARIABLES
    \* --- process engine, one entry per handle (process/mod.rs)
    wpc,        \* position of the worker thread of stream_subprocess
    wargv,      \* argv moved into the worker thread
    wstatus,    \* the worker's local `code` after child.wait()
    rdr,        \* state of the two reader threads (stdout, stderr)
    nlines,     \* lines the child has written so far
    chan,       \* the mpsc channel of the handle (FIFO of ProcEvent)
    nspawned,   \* handles created so far
    \* --- App (ui/mod.rs)
    running, active, remaining, main_pc,
    log, codex_log,
    codex_compact_view,
    codex_sandbox_mode, codex_approval_policy,
    codex_sandbox_supported, codex_approval_supported,
    codex_exec_used_sandbox_flag, codex_exec_used_approval_flag,
    codex_last_prompt, pending_codex_prompt,
    codex_retry_without_sandbox, codex_retry_without_approval,
    last_codex_message, codex_assistant_buffer,
    codex_install_attempted,
    \* --- environment
    fs_codex,   \* the agent CLI can be resolved (codex_cli_available)
    fs_node,    \* a node runtime can be resolved (node_executable)
    fs_npm,     \* npm-cli.js exists beside the runtime (npm_cli_js)
    env_auto_install,  \* USBIDE_CODEX_AUTO_INSTALL is not a "false" value
    env_device_auth,   \* USBIDE_CODEX_DEVICE_AUTH is a "true" value
    log_kept,   \* whether the specification records the two log windows: they
                \* are outputs, appended to and trimmed but never read
    \* --- the user
    nui,        \* user actions taken so far, prompts apart
    nprompts,   \* prompts submitted so far
    ncalls,     \* direct spawn_process calls made so far
    last_argv,  \* argv of the latest direct spawn_process call
    \* --- history
    sent,       \* per handle, kind and return code of the events sent so far
    retry_marked_prompts, \* prompts of the invocations whose line set a retry
                          \* mark since the marks were last cleared
    observed,   \* what the handled lines said about the flags in use
    notices,    \* downgrade notices logged so far, per flag
    launches,   \* per prompt, the agent invocations launched for it so far:
                \* from the pending slot, and by the retry path
    rejected,   \* per handle, the flags that the lines handled so far for
                \* the handle reject (emptied when its Exit is handled)
    \* --- one call of the event normalizer (codex/mod.rs)
    record,     \* the JSON record handed to extract_display_items
    display_items, \* the list it returned
    normalized, \* whether it has returned
    nagent,     \* lines the agent invocations have written so far, all
                \* invocations together
    \* --- one call of a function of codex/mod.rs
    call,       \* the function called and its arguments
    result,     \* what it returned
    returned    \* whether it has returned

engine_vars == <<wpc, wargv, wstatus, rdr, nlines, chan, nspawned>>
app_vars == <<running, active, remaining, main_pc, log, codex_log,
              codex_compact_view, codex_sandbox_mode, codex_approval_policy,
              codex_sandbox_supported, codex_approval_supported,
              codex_exec_used_sandbox_flag, codex_exec_used_approval_flag,
              codex_last_prompt, pending_codex_prompt,
              codex_retry_without_sandbox, codex_retry_without_approval,
              last_codex_message, codex_assistant_buffer,
              codex_install_attempted>>
env_vars == <<fs_codex, fs_node, fs_npm, env_auto_install, env_device_auth, log_kept>>
user_vars == <<nui, nprompts, ncalls, last_argv>>
app_hist == <<retry_marked_prompts, observed, notices, launches, rejected>>
hist_vars == <<sent, app_hist>>
norm_vars == <<record, display_items, normalized, nagent, call, result, returned>>
vars == <<engine_vars, app_vars, env_vars, user_vars, hist_vars, norm_vars>>

\* ------------------------------------------------------------------ texts
\* str::to_lowercase on one token (only tokens that have an upper-case form
\* in the model change)
LowerTok(t) ==
    CASE t = "Error:" -> "error:"
      [] t = "Unexpected Argument" -> "unexpected argument"
      [] t = "Invalid Value" -> "invalid value"
      [] t = ".COM" -> ".com"
      [] t = ".EXE" -> ".exe"
      [] t = ".BAT" -> ".bat"
      [] t = ".CMD" -> ".cmd"
      [] t = ".PS1" -> ".ps1"
      [] t = "TRUE" -> "true"
      [] OTHER -> t

to_lowercase(text) == [i \in 1..Len(text) |-> LowerTok(text[i])]

\* str::contains(token)
contains(text, tok) == \E i \in 1..Len(text) : text[i] = tok

\* str::starts_with(token)
starts_with(text, tok) == Len(text) > 0 /\ text[1] = tok

IsSpace(t) == t \in {" ", "\n", "\r"}

RECURSIVE trim_start(_)
trim_start(text) ==
    IF text # << >> /\ IsSpace(Head(text)) THEN trim_start(Tail(text)) ELSE text

RECURSIVE trim_end(_)
trim_end(text) ==
    IF text # << >> /\ IsSpace(text[Len(text)])
    THEN trim_end(SubSeq(text, 1, Len(text) - 1))
    ELSE text

\* str::trim
trim(text) == trim_end(trim_start(text))

\* line.trim_end_matches(['\n', '\r'])  (process/mod.rs:99)
RECURSIVE trim_end_matches_nl(_)
trim_end_matches_nl(text) ==
    IF text # << >> /\ text[Len(text)] \in {"\n", "\r"}
    THEN trim_end_matches_nl(SubSeq(text, 1, Len(text) - 1))
    ELSE text

\* msg.split('\n'): the lines of a message, at least one
RECURSIVE split_nl(_, _)
split_nl(text, cur) ==
    IF text = << >> THEN << cur >>
    ELSE IF Head(text) = "\n" THEN << cur >> \o split_nl(Tail(text), << >>)
    ELSE split_nl(Tail(text), Append(cur, Head(text)))

\* ------------------------------------------- codex/mod.rs: enums, strings
SandboxModes == {"read-only", "workspace-write", "danger-full-access"}
ApprovalPolicies == {"untrusted", "on-failure", "on-request", "never"}

\* the three CLI-argument-rejection phrases
rejection_phrase(lower) ==
    \/ contains(lower, "unexpected argument")
    \/ contains(lower, "unknown argument")
    \/ contains(lower, "unrecognized")

translate_codex_line(line) ==
    LET trimmed == trim(line)
        lower == to_lowercase(trimmed)
    IN  IF trimmed = << >> THEN None
        ELSE IF contains(lower, "--ask-for-approval") /\ rejection_phrase(lower)
        THEN Some(<<"Erreur : l'option --ask-for-approval n'est pas reconnue par cette version de Codex.">>)
        ELSE IF starts_with(lower, "tip:") /\ contains(lower, "--ask-for-approval")
        THEN Some(<<"Astuce : pour passer --ask-for-approval comme valeur, utilise -- --ask-for-approval.">>)
        ELSE IF starts_with(lower, "usage: codex exec")
        THEN Some(<<"Utilisation : codex exec --json --sandbox <MODE_SANDBOX> [PROMPT].">>)
        ELSE IF starts_with(lower, "for more information") \/ contains(lower, "try '--help'")
        THEN Some(<<"Pour plus d'information, utilise --help.">>)
        ELSE IF starts_with(lower, "error:")
        THEN IF rejection_phrase(lower)
             THEN Some(<<"Erreur : option inconnue ou invalide. Consulte --help.">>)
             ELSE Some(<<"Erreur : commande Codex invalide. Consulte --help.">>)
        ELSE IF starts_with(lower, "logged in using")
        THEN Some(<<"Connecte avec ChatGPT.">>)
        ELSE IF starts_with(lower, "up to date in")
        THEN Some(<<"A jour.">>)
        ELSE None

\* argv.join(" ")
RECURSIVE join_sp(_)
join_sp(argv) ==
    IF argv = << >> THEN << >>
    ELSE IF Len(argv) = 1 THEN argv[1]
    ELSE argv[1] \o <<" ">> \o join_sp(Tail(argv))

\* A Rust string that the model never looks into is a one-token text.
Str(t) == << t >>

\* codex_base_argv_with_os: the agent resolved as the bare command name
\* (no bundled runtime, not Windows).  An argv is a sequence of texts.
codex_base_argv == << Str("codex") >>

\* what codex_login_argv and codex_status_argv push after the base argv
login_args(device_auth) ==
    << Str("login") >> \o (IF device_auth THEN << Str("--device-auth") >> ELSE << >>)

status_args == << Str("login"), Str("status") >>

codex_status_argv == codex_base_argv \o status_args

codex_login_argv(device_auth) == codex_base_argv \o login_args(device_auth)

\* what codex_exec_argv pushes after the base argv, with the prompt placed
\* before the extra arguments
exec_args_prompt_first(prompt, json_output, extra_args) ==
    << Str("exec") >>
    \o (IF json_output THEN << Str("--json") >> ELSE << >>)
    \o (IF starts_with(trim_start(prompt), "-") THEN << Str("--") >> ELSE << >>)
    \o << prompt >>
    \o SelectSeq(extra_args, LAMBDA a : trim(a) # << >>)

\* what codex_exec_argv pushes after the base argv
exec_args(prompt, json_output, extra_args) ==
    << Str("exec") >>
    \o (IF json_output THEN << Str("--json") >> ELSE << >>)
    \o SelectSeq(extra_args, LAMBDA a : trim(a) # << >>)
    \o (IF starts_with(trim_start(prompt), "-") THEN << Str("--") >> ELSE << >>)
    \o << prompt >>

\* the result of codex_exec_argv for every prompt, blank or not
exec_argv_of_unchecked(base, prompt, json_output, extra_args) ==
    [ok |-> TRUE, err |-> "", argv |-> base \o exec_args(prompt, json_output, extra_args)]

\* Result<Vec<String>, CodexError> is [ok, err, argv]; base is the value of
\* codex_base_argv_with_os
exec_argv_of(base, prompt, json_output, extra_args) ==
    IF trim(prompt) = << >> THEN [ok |-> FALSE, err |-> "EmptyPrompt", argv |-> << >>]
    ELSE [ok |-> TRUE, err |-> "", argv |-> base \o exec_args(prompt, json_output, extra_args)]

codex_exec_argv(prompt, json_output, extra_args) ==
    exec_argv_of(codex_base_argv, prompt, json_output, extra_args)

\* codex_install_argv looking for the runtime before it looks at the package
install_argv_of_runtime_first(node, npm, prefix, package) ==
    IF ~IsSome(node) THEN [ok |-> FALSE, err |-> "NodeMissing", argv |-> << >>]
    ELSE IF ~IsSome(npm) THEN [ok |-> FALSE, err |-> "NpmMissing", argv |-> << >>]
    ELSE IF trim(package) = << >> THEN [ok |-> FALSE, err |-> "EmptyPackage", argv |-> << >>]
    ELSE [ok |-> TRUE, err |-> "",
          argv |-> << Unwrap(node), Unwrap(npm), Str("install"), Str("--prefix"),
                      prefix, Str("--no-audit"), Str("--no-fund"), package >>]

\* codex_install_argv given what node_executable and npm_cli_js return and
\* the prefix, each as path_for_cmd writes it
install_argv_of(node, npm, prefix, package) ==
    IF trim(package) = << >> THEN [ok |-> FALSE, err |-> "EmptyPackage", argv |-> << >>]
    ELSE IF ~IsSome(node) THEN [ok |-> FALSE, err |-> "NodeMissing", argv |-> << >>]
    ELSE IF ~IsSome(npm) THEN [ok |-> FALSE, err |-> "NpmMissing", argv |-> << >>]
    ELSE [ok |-> TRUE, err |-> "",
          argv |-> << Unwrap(node), Unwrap(npm), Str("install"), Str("--prefix"),
                      prefix, Str("--no-audit"), Str("--no-fund"), package >>]

\* codex_install_argv where only the presence of the runtime and of the
\* script of npm is known
codex_install_argv(package, node, npm) ==
    install_argv_of(IF node THEN Some(Str("node")) ELSE None,
                    IF npm THEN Some(Str("npm-cli.js")) ELSE None,
                    Str("prefix"), package)

\* --------------------------------------------------- serde_json::Value
\* A JSON value is a tagged record: the text of a string (or the token of a
\* number or a bool), the members of an object, the elements of an array.
\* A JSON string is a text with no quote or backslash in it, so that writing
\* it needs no escape.
JNull == [t |-> "null", s |-> << >>, m |-> << >>, a |-> << >>]

JBool(tok) == [t |-> "bool", s |-> << tok >>, m |-> << >>, a |-> << >>]

JNum(tok) == [t |-> "number", s |-> << tok >>, m |-> << >>, a |-> << >>]

JStr(text) == [t |-> "string", s |-> text, m |-> << >>, a |-> << >>]

JArr(items) == [t |-> "array", s |-> << >>, m |-> << >>, a |-> items]

\* the members are [k |-> the key, a text, v |-> the value], one per key
JObj(members) == [t |-> "object", s |-> << >>, m |-> members, a |-> << >>]

Member(key, value) == [k |-> << key >>, v |-> value]

\* Map::insert: the value of an existing key is replaced
insert(members, k, v) ==
    IF \E i \in 1..Len(members) : members[i].k = k
    THEN [i \in 1..Len(members) |->
             IF members[i].k = k THEN [k |-> k, v |-> v] ELSE members[i]]
    ELSE Append(members, [k |-> k, v |-> v])

\* Value::get(key): None unless the value is an object that has the key
get(value, key) ==
    IF value.t = "object" /\ \E i \in 1..Len(value.m) : value.m[i].k = << key >>
    THEN Some(value.m[CHOOSE i \in 1..Len(value.m) : value.m[i].k = << key >>].v)
    ELSE None

\* Option::or_else
or_else(o1, o2) == IF IsSome(o1) THEN o1 ELSE o2

\* Option<&Value>::and_then(Value::as_str)
as_str(o) == IF IsSome(o) /\ Unwrap(o).t = "string" THEN Some(Unwrap(o).s) ELSE None

\* Option::unwrap_or
unwrap_or(o, default) == IF IsSome(o) THEN Unwrap(o) ELSE default

is_object(value) == value.t = "object"

is_array(value) == value.t = "array"

\* the number tokens the model's lines use
NumberTokens == {"0", "1", "401", "418", "429", "503"}

\* --- serde_json::from_str, on the tokens of a line
\* the tokens of the grammar are { } [ ] : , the quote, null, true, false and
\* the number tokens; the text of a string is what stands between two quotes
RECURSIVE skip_ws(_, _)
skip_ws(ts, i) == IF i <= Len(ts) /\ IsSpace(ts[i]) THEN skip_ws(ts, i + 1) ELSE i

RECURSIVE closing_quote(_, _)
closing_quote(ts, i) ==
    IF i > Len(ts) THEN 0
    ELSE IF ts[i] = "\"" THEN i
    ELSE closing_quote(ts, i + 1)

\* a parse result: whether a value was read, the value, the next position
ParseFail == [ok |-> FALSE, v |-> JNull, i |-> 0]

ParseOk(value, next) == [ok |-> TRUE, v |-> value, i |-> next]

\* ts[i] is an opening quote
parse_string(ts, i) ==
    LET j == closing_quote(ts, i + 1)
    IN  IF j = 0 THEN ParseFail ELSE ParseOk(JStr(SubSeq(ts, i + 1, j - 1)), j + 1)

RECURSIVE parse_value(_, _)
RECURSIVE parse_members(_, _, _)
RECURSIVE parse_elements(_, _, _)
parse_value(ts, i0) ==
    LET i == skip_ws(ts, i0)
    IN  IF i > Len(ts) THEN ParseFail
        ELSE IF ts[i] = "\"" THEN parse_string(ts, i)
        ELSE IF ts[i] = "{"
        THEN LET j == skip_ws(ts, i + 1)
             IN  IF j <= Len(ts) /\ ts[j] = "}" THEN ParseOk(JObj(<< >>), j + 1)
                 ELSE parse_members(ts, j, << >>)
        ELSE IF ts[i] = "["
        THEN LET j == skip_ws(ts, i + 1)
             IN  IF j <= Len(ts) /\ ts[j] = "]" THEN ParseOk(JArr(<< >>), j + 1)
                 ELSE parse_elements(ts, j, << >>)
        ELSE IF ts[i] = "null" THEN ParseOk(JNull, i + 1)
        ELSE IF ts[i] \in {"true", "false"} THEN ParseOk(JBool(ts[i]), i + 1)
        ELSE IF ts[i] \in NumberTokens THEN ParseOk(JNum(ts[i]), i + 1)
        ELSE ParseFail

\* the members of an object from position i0, where a key is expected
parse_members(ts, i0, acc) ==
    LET i == skip_ws(ts, i0)
    IN  IF i > Len(ts) \/ ts[i] # "\"" THEN ParseFail
        ELSE LET key == parse_string(ts, i)
                 c == skip_ws(ts, key.i)
             IN  IF ~key.ok \/ c > Len(ts) \/ ts[c] # ":" THEN ParseFail
                 ELSE LET val == parse_value(ts, c + 1)
                          e == skip_ws(ts, val.i)
                      IN  IF ~val.ok \/ e > Len(ts) THEN ParseFail
                          ELSE IF ts[e] = ","
                          THEN parse_members(ts, e + 1, insert(acc, key.v.s, val.v))
                          ELSE IF ts[e] = "}"
                          THEN ParseOk(JObj(insert(acc, key.v.s, val.v)), e + 1)
                          ELSE ParseFail

\* the elements of an array from position i0, where a value is expected
parse_elements(ts, i0, acc) ==
    LET val == parse_value(ts, i0)
        e == skip_ws(ts, val.i)
    IN  IF ~val.ok \/ e > Len(ts) THEN ParseFail
        ELSE IF ts[e] = "," THEN parse_elements(ts, e + 1, Append(acc, val.v))
        ELSE IF ts[e] = "]" THEN ParseOk(JArr(Append(acc, val.v)), e + 1)
        ELSE ParseFail

\* Result<Value, Error> as an Option: Err when no value can be read or when
\* something other than white space follows it
from_str(ts) ==
    LET r == parse_value(ts, 1)
    IN  IF r.ok /\ skip_ws(ts, r.i) > Len(ts) THEN Some(r.v) ELSE None

\* --- serde_json::to_string and Display for Value: the compact form.  The
\* map of an object is a BTreeMap (serde_json without preserve_order): its
\* members are written in the order of their keys.
KeyOrder ==
    << "args", "arguments", "content", "delta", "description", "error", "id",
       "input", "item", "message", "name", "parameters", "path", "payload",
       "role", "text", "tool", "tool_call", "tool_calls", "tool_name", "tools",
       "type" >>

KeyRank(k) ==
    IF \E i \in 1..Len(KeyOrder) : k = << KeyOrder[i] >>
    THEN CHOOSE i \in 1..Len(KeyOrder) : k = << KeyOrder[i] >>
    ELSE Len(KeyOrder) + 1

RECURSIVE sort_members(_)
sort_members(members) ==
    IF members = << >> THEN << >>
    ELSE LET first == CHOOSE i \in 1..Len(members) :
                          \A j \in 1..Len(members) :
                              \/ KeyRank(members[i].k) < KeyRank(members[j].k)
                              \/ (KeyRank(members[i].k) = KeyRank(members[j].k) /\ i <= j)
             rest == [j \in 1..(Len(members) - 1) |->
                          IF j < first THEN members[j] ELSE members[j + 1]]
         IN  << members[first] >> \o sort_members(rest)

RECURSIVE to_string(_)
RECURSIVE members_to_string(_)
RECURSIVE elements_to_string(_)
to_string(value) ==
    CASE value.t = "null" -> << "null" >>
      [] value.t = "string" -> << "\"" >> \o value.s \o << "\"" >>
      [] value.t = "object" -> << "{" >> \o members_to_string(sort_members(value.m)) \o << "}" >>
      [] value.t = "array" -> << "[" >> \o elements_to_string(value.a) \o << "]" >>
      [] OTHER -> value.s

members_to_string(members) ==
    IF members = << >> THEN << >>
    ELSE << "\"" >> \o Head(members).k \o << "\"", ":" >> \o to_string(Head(members).v)
         \o (IF Len(members) > 1 THEN << "," >> \o members_to_string(Tail(members)) ELSE << >>)

elements_to_string(items) ==
    IF items = << >> THEN << >>
    ELSE to_string(Head(items))
         \o (IF Len(items) > 1 THEN << "," >> \o elements_to_string(Tail(items)) ELSE << >>)

\* str::trim_matches('"')
RECURSIVE trim_matches_quote(_)
trim_matches_quote(text) ==
    IF text # << >> /\ Head(text) = "\"" THEN trim_matches_quote(Tail(text))
    ELSE IF text # << >> /\ text[Len(text)] = "\""
    THEN trim_matches_quote(SubSeq(text, 1, Len(text) - 1))
    ELSE text


\* ------------------------------------- codex/mod.rs: the event normalizer
DisplayItem(kind, message) == [kind |-> kind, message |-> message]

\* the runs of three digits that a message of the model can hold, each one
\* token, with the u16 that str::parse reads from it
StatusValue ==
    [t \in {"401", "403", "407", "418", "429", "500", "503", "599", "600"} |->
        CASE t = "401" -> 401 [] t = "403" -> 403 [] t = "407" -> 407
          [] t = "418" -> 418 [] t = "429" -> 429 [] t = "500" -> 500
          [] t = "503" -> 503 [] t = "599" -> 599 [] t = "600" -> 600]

StatusTokens == DOMAIN StatusValue

\* format!("{status}") of a u16 read from three digits
status_text(status) == CHOOSE t \in StatusTokens : StatusValue[t] = status

\* Regex (?i)(?:unexpected status|last status[: ]+)\s*(\d{3}), then \b(\d{3})\b:
\* the status after one of the two phrases, or else the first status anywhere
extract_status_code(msg) ==
    LET lower == to_lowercase(msg)
        after == { i \in 1..Len(msg) :
                     /\ msg[i] \in StatusTokens
                     /\ \E j \in 1..(i - 1) :
                          /\ lower[j] \in {"unexpected status", "last status:"}
                          /\ \A k \in (j + 1)..(i - 1) : IsSpace(msg[k]) }
        any == { i \in 1..Len(msg) : msg[i] \in StatusTokens }
        first(set) == CHOOSE i \in set : \A j \in set : i <= j
    IN  IF after # { } THEN Some(StatusValue[msg[first(after)]])
        ELSE IF any # { } THEN Some(StatusValue[msg[first(any)]])
        ELSE None

codex_hint_for_status_none(status) == None

\* the hint of a server error for every status
codex_hint_for_status_total(status) ==
    Some(<<"5xx = erreur serveur -> reessaie, possible incident cote OpenAI.">>)

\* (the 401 hint is written without the back quotes around codex logout)
codex_hint_for_status(status) ==
    CASE status = 401 -> Some(<<"401 = authentification invalide -> Ctrl+K (login) ou codex logout + login ChatGPT.">>)
      [] status = 403 -> Some(<<"403 = acces interdit -> verifie login ChatGPT (pas API key) / droits / reseau.">>)
      [] status = 407 -> Some(<<"407 = proxy auth required -> configure HTTP_PROXY/HTTPS_PROXY.">>)
      [] status = 429 -> Some(<<"429 = rate limit -> reessaie plus tard / ralentis.">>)
      [] status \in 500..599 -> Some(<<"5xx = erreur serveur -> reessaie, possible incident cote OpenAI.">>)
      [] OTHER -> None

TextPartTypes == { <<"output_text">>, <<"output_markdown">>, <<"text">>, <<"input_text">> }

\* the texts of the parts of an array content, in order
RECURSIVE texts_of_parts(_)
texts_of_parts(items) ==
    IF items = << >> THEN << >>
    ELSE LET item == Head(items)
             item_type == get(item, "type")
             text == or_else(get(item, "text"), get(item, "content"))
             here == IF is_object(item)
                     THEN IF /\ IsSome(item_type) /\ Unwrap(item_type).t = "string"
                             /\ Unwrap(item_type).s \in TextPartTypes
                             /\ IsSome(text) /\ Unwrap(text).t = "string"
                             /\ Unwrap(text).s # << >>
                          THEN << Unwrap(text).s >> ELSE << >>
                     ELSE IF item.t = "string" THEN << item.s >> ELSE << >>
         IN  here \o texts_of_parts(Tail(items))

extract_text_from_content(content) ==
    CASE content.t = "array" -> texts_of_parts(content.a)
      [] content.t = "string" -> << content.s >>
      [] OTHER -> << >>

\* push_item: the items with one more when msg is a non-empty string
push_item(items, kind, msg) ==
    IF msg.t = "string" /\ msg.s # << >> THEN Append(items, DisplayItem(kind, msg.s))
    ELSE items

items_of_texts(kind, texts) == [i \in 1..Len(texts) |-> DisplayItem(kind, texts[i])]

items_from_message_payload(payload) ==
    LET payload_type == as_str(get(payload, "type"))
        role == as_str(get(payload, "role"))
        texts == extract_text_from_content(unwrap_or(get(payload, "content"), JNull))
        message == get(payload, "message")
    IN  IF payload_type # Some(<<"message">>) THEN << >>
        ELSE IF role \notin { Some(<<"assistant">>), Some(<<"user">>) } THEN << >>
        ELSE LET kind == IF role = Some(<<"assistant">>) THEN "Assistant" ELSE "User"
             IN  IF texts # << >> THEN items_of_texts(kind, texts)
                 ELSE IF IsSome(message) THEN push_item(<< >>, kind, Unwrap(message))
                 ELSE << >>

items_from_item_payload(item) ==
    LET item_type == unwrap_or(as_str(get(item, "type")), << >>)
        texts == extract_text_from_content(unwrap_or(get(item, "content"), JNull))
        both(kind) ==
            push_item(push_item(items_of_texts(kind, texts), kind,
                                unwrap_or(get(item, "text"), JNull)),
                      kind, unwrap_or(get(item, "message"), JNull))
    IN  IF item_type = <<"message">> THEN items_from_message_payload(item)
        ELSE IF item_type \in { <<"agent_message">>, <<"assistant_message">> }
        THEN both("Assistant")
        ELSE IF item_type \in { <<"user_message">>, <<"user">> } THEN both("User")
        ELSE << >>

\* the tool calls of one container
calls_of(container) ==
    LET tool_call == get(container, "tool_call")
        list == or_else(get(container, "tool_calls"), get(container, "tools"))
    IN  (IF IsSome(tool_call) /\ is_object(Unwrap(tool_call))
         THEN << Unwrap(tool_call) >> ELSE << >>)
        \o (IF IsSome(list) /\ is_array(Unwrap(list))
            THEN SelectSeq(Unwrap(list).a, is_object) ELSE << >>)

RECURSIVE iter_tool_calls(_)
iter_tool_calls(containers) ==
    IF containers = << >> THEN << >>
    ELSE (IF is_object(Head(containers)) THEN calls_of(Head(containers)) ELSE << >>)
         \o iter_tool_calls(Tail(containers))

\* the text of the arguments of a call: an object or an array as its JSON
\* text, anything else as its JSON text without the surrounding quotes
arg_text_of(args) ==
    IF IsSome(args)
    THEN IF is_object(Unwrap(args)) \/ is_array(Unwrap(args))
         THEN Some(to_string(Unwrap(args)))
         ELSE Some(trim_matches_quote(to_string(Unwrap(args))))
    ELSE None

\* the text of an action from its description, its name and its arguments
action_text(description, name, args, arg_text) ==
    LET name_is_text == IsSome(name) /\ Unwrap(name).t = "string" /\ Unwrap(name).s # << >>
    IN  IF /\ IsSome(description) /\ Unwrap(description).t = "string"
           /\ trim(Unwrap(description).s) # << >>
           /\ ~IsSome(name) /\ ~IsSome(args)
        THEN Some(trim(Unwrap(description).s))
        ELSE IF name_is_text /\ IsSome(arg_text)
        THEN Some(Unwrap(name).s \o <<": ">> \o Unwrap(arg_text))
        ELSE IF name_is_text THEN Some(Unwrap(name).s)
        ELSE IF IsSome(name) /\ IsSome(arg_text)
        THEN Some(trim_matches_quote(to_string(Unwrap(name))) \o <<": ">> \o Unwrap(arg_text))
        ELSE IF IsSome(name) THEN Some(trim_matches_quote(to_string(Unwrap(name))))
        ELSE IF IsSome(arg_text) /\ Unwrap(arg_text) # << >> THEN arg_text
        ELSE None

\* Option<String>
format_action(payload) ==
    LET raw_type == to_lowercase(unwrap_or(as_str(get(payload, "type")), << >>))
        is_action == raw_type \in { <<"tool_call">>, <<"function_call">>, <<"action">>, <<"tool">> }
        has_name == \/ IsSome(get(payload, "name")) \/ IsSome(get(payload, "tool"))
                    \/ IsSome(get(payload, "tool_name"))
        has_args == \/ IsSome(get(payload, "arguments")) \/ IsSome(get(payload, "args"))
                    \/ IsSome(get(payload, "input")) \/ IsSome(get(payload, "parameters"))
        name == or_else(or_else(or_else(get(payload, "name"), get(payload, "tool")),
                                get(payload, "tool_name")), get(payload, "id"))
        args == or_else(or_else(or_else(get(payload, "arguments"), get(payload, "args")),
                                get(payload, "input")), get(payload, "parameters"))
        description == or_else(get(payload, "message"), get(payload, "description"))
    IN  IF ~is_action /\ ~(has_name /\ has_args) THEN None
        ELSE action_text(description, name, args, arg_text_of(args))

\* the Action item of a payload that format_action describes
item_of_action(text) ==
    IF IsSome(text) THEN << DisplayItem("Action", Unwrap(text)) >> ELSE << >>

action_items(payload) == item_of_action(format_action(payload))

RECURSIVE actions_of_calls(_)
actions_of_calls(calls) ==
    IF calls = << >> THEN << >>
    ELSE action_items(Head(calls)) \o actions_of_calls(Tail(calls))

\* the items of extract_display_items before its last loop
collected_items(obj) ==
    LET event_type == as_str(get(obj, "type"))
        payload == unwrap_or(get(obj, "payload"), JNull)
        item == unwrap_or(get(obj, "item"), JNull)
        payload_type == as_str(get(payload, "type"))
        msg == unwrap_or(or_else(get(payload, "message"), get(payload, "text")), JNull)
        of_event_msg ==
            IF event_type = Some(<<"event_msg">>) /\ is_object(payload)
            THEN IF payload_type \in { Some(<<"agent_message">>), Some(<<"assistant_message">>) }
                 THEN push_item(<< >>, "Assistant", msg)
                 ELSE IF payload_type \in { Some(<<"user_message">>), Some(<<"user">>) }
                 THEN push_item(<< >>, "User", msg)
                 ELSE action_items(payload)
            ELSE << >>
        of_response_item ==
            IF event_type = Some(<<"response_item">>)
            THEN items_from_message_payload(payload) \o action_items(payload)
            ELSE << >>
        of_output_text ==
            IF event_type \in { Some(<<"response.output_text.done">>), Some(<<"response.output_text">>) }
            THEN push_item(<< >>, "Assistant", unwrap_or(get(obj, "text"), JNull))
            ELSE << >>
        of_item ==
            IF is_object(item) THEN items_from_item_payload(item) \o action_items(item)
            ELSE << >>
    IN  of_event_msg \o of_response_item \o of_output_text \o of_item
        \o actions_of_calls(iter_tool_calls(<< obj, payload, item >>))

\* the last loop of extract_display_items: the first occurrence of each item
RECURSIVE uniques(_, _)
uniques(items, seen) ==
    IF items = << >> THEN << >>
    ELSE IF Head(items) \in seen THEN uniques(Tail(items), seen)
    ELSE << Head(items) >> \o uniques(Tail(items), seen \cup { Head(items) })

extract_display_items_undeduplicated(obj) == collected_items(obj)

extract_display_items(obj) == uniques(collected_items(obj), { })

\* ------------------------------------------- codex/mod.rs: the word wrap
\* Here a text is a sequence of chars, each a one-char string but two that
\* are named by their code points: U+0060, the back quote, and U+00E9, which
\* takes two bytes in UTF-8.
ByteLen(c) == IF c = "U+00E9" THEN 2 ELSE 1

\* str::len: the length in bytes
RECURSIVE str_len(_)
str_len(text) == IF text = << >> THEN 0 ELSE ByteLen(Head(text)) + str_len(Tail(text))

\* str::lines: the text split at "\n", a "\r" before it dropped, no line
\* after the last "\n"
RECURSIVE split_lines(_, _)
split_lines(text, cur) ==
    IF text = << >> THEN (IF cur = << >> THEN << >> ELSE << cur >>)
    ELSE IF Head(text) = "\n"
    THEN << IF cur # << >> /\ cur[Len(cur)] = "\r" THEN SubSeq(cur, 1, Len(cur) - 1) ELSE cur >>
         \o split_lines(Tail(text), << >>)
    ELSE split_lines(Tail(text), Append(cur, Head(text)))

str_lines(text) == split_lines(text, << >>)

\* str::split_whitespace: the runs of chars that are not white space
RECURSIVE split_words(_, _)
split_words(text, cur) ==
    IF text = << >> THEN (IF cur = << >> THEN << >> ELSE << cur >>)
    ELSE IF IsSpace(Head(text))
    THEN (IF cur = << >> THEN << >> ELSE << cur >>) \o split_words(Tail(text), << >>)
    ELSE split_words(Tail(text), Append(cur, Head(text)))

split_whitespace(text) == split_words(text, << >>)

\* the while loop of hard_wrap: slices of width chars
RECURSIVE slices(_, _)
slices(chars, width) ==
    IF chars = << >> THEN << >>
    ELSE IF Len(chars) <= width THEN << chars >>
    ELSE << SubSeq(chars, 1, width) >> \o slices(SubSeq(chars, width + 1, Len(chars)), width)

hard_wrap_whole(line, width) == << line >>

hard_wrap(line, width) ==
    IF width = 0 THEN << line >>
    ELSE IF line = << >> THEN << << >> >>
    ELSE slices(line, width)

\* the loop of wrap_line over the words, and what follows it
RECURSIVE wrap_words(_, _, _, _)
wrap_words(words, width, out, current) ==
    IF words = << >>
    THEN IF current # << >> THEN Append(out, current)
         ELSE IF out = << >> THEN << << >> >> ELSE out
    ELSE IF current = << >>
    THEN IF str_len(Head(words)) > width
         THEN wrap_words(Tail(words), width, out \o hard_wrap(Head(words), width), << >>)
         ELSE wrap_words(Tail(words), width, out, Head(words))
    ELSE IF str_len(current) + 1 + str_len(Head(words)) <= width
    THEN wrap_words(Tail(words), width, out, current \o << " " >> \o Head(words))
    ELSE IF str_len(Head(words)) > width
    THEN wrap_words(Tail(words), width,
                    Append(out, current) \o hard_wrap(Head(words), width), << >>)
    ELSE wrap_words(Tail(words), width, Append(out, current), Head(words))

wrap_line(line, width) ==
    IF str_len(line) <= width THEN << line >>
    ELSE wrap_words(split_whitespace(line), width, << >>, << >>)

\* raw.trim_start().starts_with of three back quotes
opens_fence(raw) ==
    Len(trim_start(raw)) >= 3 /\ SubSeq(trim_start(raw), 1, 3) = << "U+0060", "U+0060", "U+0060" >>

\* a wrap_text that wraps the lines of a code block as it wraps the others
RECURSIVE wrap_raws_rewrapping(_, _, _)
wrap_raws_rewrapping(raws, width, in_code) ==
    IF raws = << >> THEN << >>
    ELSE IF opens_fence(Head(raws))
    THEN << Head(raws) >> \o wrap_raws_rewrapping(Tail(raws), width, ~in_code)
    ELSE IF trim(Head(raws)) = << >>
    THEN << << >> >> \o wrap_raws_rewrapping(Tail(raws), width, in_code)
    ELSE wrap_line(Head(raws), width) \o wrap_raws_rewrapping(Tail(raws), width, in_code)

wrap_text_rewrapping(text, width) ==
    wrap_raws_rewrapping(str_lines(text), IF width > 10 THEN width ELSE 10, FALSE)

\* the loop of wrap_text over the lines
RECURSIVE wrap_raws(_, _, _)
wrap_raws(raws, width, in_code) ==
    IF raws = << >> THEN << >>
    ELSE IF opens_fence(Head(raws))
    THEN << Head(raws) >> \o wrap_raws(Tail(raws), width, ~in_code)
    ELSE IF in_code
    THEN (IF str_len(Head(raws)) <= width THEN << Head(raws) >>
          ELSE hard_wrap(Head(raws), width))
         \o wrap_raws(Tail(raws), width, in_code)
    ELSE IF trim(Head(raws)) = << >>
    THEN << << >> >> \o wrap_raws(Tail(raws), width, in_code)
    ELSE wrap_line(Head(raws), width) \o wrap_raws(Tail(raws), width, in_code)

wrap_text(text, width) == wrap_raws(str_lines(text), IF width > 10 THEN width ELSE 10, FALSE)

\* --------------------------------------------------- process/mod.rs: events
LineEvent(text) == [kind |-> "Line", text |-> text, returncode |-> None]

\* format!("exit {}", code.unwrap_or(-1)) and format!("exit -1 ({err})")
ExitEvent(code) ==
    [kind |-> "Exit",
     text |-> IF IsSome(code) /\ Unwrap(code) = 0 THEN <<"exit", "0">>
              ELSE IF IsSome(code) THEN <<"exit", "1">> ELSE <<"exit", "-1">>,
     returncode |-> code]

SpawnErrEvent == [kind |-> "Exit", text |-> <<"exit", "-1", "(err)">>, returncode |-> None]

\* ------------------------------------------------------ ui/mod.rs: the App
LOG_LIMIT == 2000

\* The state the main thread reads and writes, as one record: the fields of
\* App, and the engine state that stream_subprocess creates for a new handle.
Cur ==
    [running |-> running, log |-> log, codex_log |-> codex_log,
     codex_compact_view |-> codex_compact_view,
     codex_sandbox_mode |-> codex_sandbox_mode,
     codex_approval_policy |-> codex_approval_policy,
     codex_sandbox_supported |-> codex_sandbox_supported,
     codex_approval_supported |-> codex_approval_supported,
     codex_exec_used_sandbox_flag |-> codex_exec_used_sandbox_flag,
     codex_exec_used_approval_flag |-> codex_exec_used_approval_flag,
     codex_last_prompt |-> codex_last_prompt,
     pending_codex_prompt |-> pending_codex_prompt,
     codex_retry_without_sandbox |-> codex_retry_without_sandbox,
     codex_retry_without_approval |-> codex_retry_without_approval,
     last_codex_message |-> last_codex_message,
     codex_assistant_buffer |-> codex_assistant_buffer,
     codex_install_attempted |-> codex_install_attempted,
     wpc |-> wpc, wargv |-> wargv, nspawned |-> nspawned,
     wstatus |-> wstatus, rdr |-> rdr, nlines |-> nlines, chan |-> chan,
     active |-> active, remaining |-> remaining, main_pc |-> main_pc,
     sent |-> sent, retry_marked_prompts |-> retry_marked_prompts,
     observed |-> observed, notices |-> notices,
     launches |-> launches, rejected |-> rejected]

Commit(S) ==
    \E T \in { S } :
        /\ running' = T.running
        /\ log' = (IF log_kept THEN T.log ELSE log)
        /\ codex_log' = (IF log_kept THEN T.codex_log ELSE codex_log)
        /\ codex_compact_view' = T.codex_compact_view
        /\ codex_sandbox_mode' = T.codex_sandbox_mode
        /\ codex_approval_policy' = T.codex_approval_policy
        /\ codex_sandbox_supported' = T.codex_sandbox_supported
        /\ codex_approval_supported' = T.codex_approval_supported
        /\ codex_exec_used_sandbox_flag' = T.codex_exec_used_sandbox_flag
        /\ codex_exec_used_approval_flag' = T.codex_exec_used_approval_flag
        /\ codex_last_prompt' = T.codex_last_prompt
        /\ pending_codex_prompt' = T.pending_codex_prompt
        /\ codex_retry_without_sandbox' = T.codex_retry_without_sandbox
        /\ codex_retry_without_approval' = T.codex_retry_without_approval
        /\ last_codex_message' = T.last_codex_message
        /\ codex_assistant_buffer' = T.codex_assistant_buffer
        /\ codex_install_attempted' = T.codex_install_attempted
        /\ wpc' = T.wpc
        /\ wargv' = T.wargv
        /\ nspawned' = T.nspawned
        /\ wstatus' = T.wstatus
        /\ rdr' = T.rdr
        /\ nlines' = T.nlines
        /\ chan' = T.chan
        /\ active' = T.active
        /\ remaining' = T.remaining
        /\ main_pc' = T.main_pc
        /\ sent' = T.sent
        /\ retry_marked_prompts' = T.retry_marked_prompts
        /\ observed' = T.observed
        /\ notices' = T.notices
        /\ launches' = T.launches
        /\ rejected' = T.rejected

\* What the handlers read from the file system and the process environment:
\* node is node_executable under the map of App::codex_env, node_plain is
\* node_executable under the environment of the process, package is
\* USBIDE_CODEX_NPM_PACKAGE or its default.
Env ==
    [cli |-> fs_codex, node |-> fs_node, node_plain |-> fs_node, npm |-> fs_npm,
     auto_install |-> env_auto_install, device_auth |-> env_device_auth,
     package |-> Str("@openai/codex")]

\* one styled line of the log per line of a message
styled_lines(lines, style) == [i \in 1..Len(lines) |-> [text |-> lines[i], style |-> style]]

\* the log cut to its first LOG_LIMIT lines
log_limited_oldest(pushed) ==
    IF Len(pushed) > LOG_LIMIT
    THEN SubSeq(pushed, 1, LOG_LIMIT)
    ELSE pushed

\* the log with the oldest lines dropped beyond LOG_LIMIT
log_limited(pushed) ==
    IF Len(pushed) > LOG_LIMIT
    THEN SubSeq(pushed, Len(pushed) - LOG_LIMIT + 1, Len(pushed))
    ELSE pushed

push_log(S, target, msg, style) ==
    IF target = "Main"
    THEN [S EXCEPT !.log = log_limited(@ \o styled_lines(split_nl(msg, << >>), style))]
    ELSE [S EXCEPT !.codex_log = log_limited(@ \o styled_lines(split_nl(msg, << >>), style))]

log_ui(S, msg) == push_log(S, "Main", msg, "default")

codex_log_ui(S, msg) == push_log(S, "Codex", msg, "default")

codex_log_output(S, msg) == push_log(S, "Codex", msg, "default")

\* record_issue appends to bug.md, a file nothing here reads
log_issue(S, msg, niveau, contexte, target) == push_log(S, target, msg, "red")

\* wrap_text(msg, width) of a message that is one line no longer than the
\* width, as one text: wrap_line returns it unchanged (codex/mod.rs:1119)
wrapped(msg) == << msg >>

RECURSIVE push_lines(_, _, _)
push_lines(S, lines, style) ==
    IF lines = << >> THEN S
    ELSE push_lines(IF Head(lines) = << >>
                    THEN push_log(S, "Codex", << >>, "default")
                    ELSE push_log(S, "Codex", Head(lines), style),
                    Tail(lines), style)

label_style(kind) ==
    CASE kind = "assistant" -> "green-bold"
      [] kind = "user" -> "blue-bold"
      [] kind = "action" -> "darkgray-bold"
      [] OTHER -> "bold"

line_style(kind) ==
    CASE kind = "assistant" -> "green"
      [] kind = "user" -> "blue"
      [] kind = "action" -> "darkgray"
      [] OTHER -> "default"

codex_log_entry_unremembered(S, msg, label, kind) ==
    LET cleaned == trim(msg)
        S1 == [S EXCEPT !.last_codex_message = Some(<< kind, cleaned >>)]
        S2 == push_log(S1, "Codex", Str(label), label_style(kind))
        S3 == push_lines(S2, wrapped(msg), line_style(kind))
    IN  IF cleaned = << >> THEN S ELSE push_log(S3, "Codex", << >>, "default")

codex_log_entry(S, msg, label, kind) ==
    LET cleaned == trim(msg)
        fingerprint == << kind, cleaned >>
    IN  IF cleaned = << >> THEN S
        ELSE IF S.last_codex_message = Some(fingerprint) THEN S
        ELSE push_log(push_lines(push_log([S EXCEPT !.last_codex_message = Some(fingerprint)],
                                          "Codex", Str(label), label_style(kind)),
                                 wrapped(msg), line_style(kind)),
                      "Codex", << >>, "default")

codex_log_user_message(S, msg) == codex_log_entry(S, msg, "Utilisateur", "user")

codex_log_action(S, msg) == codex_log_entry(S, msg, "Action", "action")

codex_log_message(S, msg) == codex_log_entry(S, msg, "Assistant", "assistant")

\* ----------------------------------------------- capability negotiation
NoticeSandbox ==
    <<"Option --sandbox non supportee par cette version Codex. Relance sans sandbox (mode par defaut).">>

NoticeApproval ==
    <<"Option --ask-for-approval non supportee par cette version Codex. Relance sans approbations.">>

codex_exec_extra_args_swapped(S) ==
    (IF S.codex_approval_supported # Some(FALSE)
     THEN << Str("--ask-for-approval"), Str(S.codex_approval_policy) >> ELSE << >>)
    \o (IF S.codex_sandbox_supported # Some(FALSE)
        THEN << Str("--sandbox"), Str(S.codex_sandbox_mode) >> ELSE << >>)

codex_exec_extra_args(S) ==
    (IF S.codex_sandbox_supported # Some(FALSE)
     THEN << Str("--sandbox"), Str(S.codex_sandbox_mode) >> ELSE << >>)
    \o (IF S.codex_approval_supported # Some(FALSE)
        THEN << Str("--ask-for-approval"), Str(S.codex_approval_policy) >> ELSE << >>)

next_codex_sandbox_mode(mode) ==
    CASE mode = "read-only" -> "workspace-write"
      [] mode = "workspace-write" -> "danger-full-access"
      [] mode = "danger-full-access" -> "read-only"

next_codex_approval_policy(policy) ==
    CASE policy = "on-request" -> "on-failure"
      [] policy = "on-failure" -> "untrusted"
      [] policy = "untrusted" -> "never"
      [] policy = "never" -> "on-request"

approval_flag_error(line) ==
    LET lower == to_lowercase(line)
    IN  contains(lower, "--ask-for-approval") /\ rejection_phrase(lower)

sandbox_flag_error(line) ==
    LET lower == to_lowercase(line)
    IN  contains(lower, "--sandbox") /\ rejection_phrase(lower)

sandbox_value_error_possible(line) ==
    LET lower == to_lowercase(line)
    IN  contains(lower, "--sandbox") /\ contains(lower, "possible values")

sandbox_value_error(line) ==
    LET lower == to_lowercase(line)
    IN  /\ contains(lower, "--sandbox")
        /\ (contains(lower, "invalid value") \/ contains(lower, "possible values"))

handle_approval_flag_line_unguarded(S, line) ==
    IF ~approval_flag_error(line)
    THEN [s |-> S, r |-> FALSE]
    ELSE LET S1 == IF S.codex_approval_supported # Some(FALSE)
                   THEN codex_log_action(
                            [S EXCEPT !.codex_approval_supported = Some(FALSE)],
                            NoticeApproval)
                   ELSE S
         IN  [s |-> [S1 EXCEPT !.codex_retry_without_approval = TRUE], r |-> TRUE]

\* the handlers return [s |-> the App afterwards, r |-> the bool returned]
handle_approval_flag_line(S, line) ==
    IF ~S.codex_exec_used_approval_flag \/ ~approval_flag_error(line)
    THEN [s |-> S, r |-> FALSE]
    ELSE LET S1 == IF S.codex_approval_supported # Some(FALSE)
                   THEN codex_log_action(
                            [S EXCEPT !.codex_approval_supported = Some(FALSE)],
                            NoticeApproval)
                   ELSE S
         IN  [s |-> [S1 EXCEPT !.codex_retry_without_approval = TRUE], r |-> TRUE]

handle_sandbox_flag_line_renotify(S, line) ==
    IF ~S.codex_exec_used_sandbox_flag THEN [s |-> S, r |-> FALSE]
    ELSE IF sandbox_flag_error(line) \/ sandbox_value_error(line)
    THEN LET S1 == codex_log_action(
                       [S EXCEPT !.codex_sandbox_supported = Some(FALSE)], NoticeSandbox)
         IN  [s |-> [S1 EXCEPT !.codex_retry_without_sandbox = TRUE], r |-> TRUE]
    ELSE [s |-> S, r |-> FALSE]

handle_sandbox_flag_line_unguarded(S, line) ==
    IF sandbox_flag_error(line) \/ sandbox_value_error(line)
    THEN LET S1 == IF S.codex_sandbox_supported # Some(FALSE)
                   THEN codex_log_action(
                            [S EXCEPT !.codex_sandbox_supported = Some(FALSE)],
                            NoticeSandbox)
                   ELSE S
         IN  [s |-> [S1 EXCEPT !.codex_retry_without_sandbox = TRUE], r |-> TRUE]
    ELSE [s |-> S, r |-> FALSE]

handle_sandbox_flag_line(S, line) ==
    IF ~S.codex_exec_used_sandbox_flag THEN [s |-> S, r |-> FALSE]
    ELSE IF sandbox_flag_error(line) \/ sandbox_value_error(line)
    THEN LET S1 == IF S.codex_sandbox_supported # Some(FALSE)
                   THEN codex_log_action(
                            [S EXCEPT !.codex_sandbox_supported = Some(FALSE)],
                            NoticeSandbox)
                   ELSE S
         IN  [s |-> [S1 EXCEPT !.codex_retry_without_sandbox = TRUE], r |-> TRUE]
    ELSE [s |-> S, r |-> FALSE]

action_toggle_codex_view(S) ==
    LET S1 == [S EXCEPT !.codex_compact_view = ~@, !.last_codex_message = None]
    IN  codex_log_ui(S1, <<"Mode Codex:", IF S1.codex_compact_view THEN "Compact" ELSE "Brut">>)

codex_sandbox_label(mode) ==
    CASE mode = "read-only" -> "lecture seule"
      [] mode = "workspace-write" -> "agent (workspace)"
      [] mode = "danger-full-access" -> "danger (acces complet)"

codex_approval_label(policy) ==
    CASE policy = "untrusted" -> "non fiable"
      [] policy = "on-failure" -> "sur echec"
      [] policy = "on-request" -> "sur demande"
      [] policy = "never" -> "jamais"

action_toggle_codex_sandbox_reprobe(S) ==
    LET S1 == [S EXCEPT !.codex_sandbox_mode = next_codex_sandbox_mode(@),
                        !.codex_sandbox_supported = None]
    IN  codex_log_ui(S1, <<"Sandbox Codex:", codex_sandbox_label(S1.codex_sandbox_mode)>>)

action_toggle_codex_sandbox(S) ==
    LET S1 == [S EXCEPT !.codex_sandbox_mode = next_codex_sandbox_mode(@)]
    IN  codex_log_ui(S1, <<"Sandbox Codex:", codex_sandbox_label(S1.codex_sandbox_mode)>>)

action_toggle_codex_approval(S) ==
    LET S1 == [S EXCEPT !.codex_approval_policy = next_codex_approval_policy(@)]
    IN  codex_log_ui(S1, <<"Approbations Codex:", codex_approval_label(S1.codex_approval_policy)>>)

action_clear_log(S) ==
    log_ui([S EXCEPT !.log = << >>, !.codex_log = << >>, !.last_codex_message = None],
           <<"journaux effaces">>)

\* ------------------------------------------------------------ spawning
\* stream_subprocess: Err(EmptyArgv) before anything is created, otherwise
\* the channel and the worker thread of a new handle
stream_subprocess_unchecked(S, argv) ==
    LET h == S.nspawned + 1
    IN  [ok |-> TRUE, handle |-> h,
         s |-> [S EXCEPT !.nspawned = h,
                         !.wpc = (h :> "start") @@ @,
                         !.wargv = (h :> argv) @@ @]]

stream_subprocess(S, argv) ==
    IF argv = << >> THEN [ok |-> FALSE, s |-> S, handle |-> 0]
    ELSE LET h == S.nspawned + 1
         IN  [ok |-> TRUE, handle |-> h,
              s |-> [S EXCEPT !.nspawned = h,
                              !.wpc = (h :> "start") @@ @,
                              !.wargv = (h :> argv) @@ @]]

spawn_process(S, argv, contexte, target, kind) ==
    LET res == stream_subprocess(S, argv)
    IN  IF res.ok
        THEN [res.s EXCEPT !.running =
                 Append(@, [handle |-> res.handle, kind |-> kind,
                            target |-> target, contexte |-> contexte])]
        ELSE log_issue(S, <<"Erreur execution", contexte, ":", "argv ne doit pas etre vide">>,
                       "erreur", contexte, target)

run_shell(S, cmd) ==
    IF cmd = << >> THEN S
    ELSE spawn_process(log_ui(S, <<"$">> \o cmd), << Str("sh"), Str("-lc"), cmd >>,
                       "commande shell", "Main", "Shell")

ensure_node_available(S, E, target) ==
    IF E.node THEN [s |-> S, r |-> TRUE]
    ELSE [s |-> log_issue(S, <<"Node portable introuvable. Place node dans tools/node">>,
                          "erreur", "node", target),
          r |-> FALSE]

\* (creating the install prefix directory succeeds)
\* install_codex without the refusal of a second attempt
install_codex_again(S, E, force, target) ==
    IF ~force /\ E.cli THEN [s |-> S, r |-> TRUE]
    ELSE IF FALSE /\ S.codex_install_attempted
    THEN [s |-> log_issue(S, <<"Installation Codex deja tentee. (Ctrl+I pour forcer)">>,
                          "avertissement", "installation_codex", target),
          r |-> FALSE]
    ELSE IF ~force /\ ~E.auto_install
    THEN [s |-> log_issue(S, <<"Auto-install Codex desactive. (Ctrl+I pour installer)">>,
                          "avertissement", "installation_codex", target),
          r |-> FALSE]
    ELSE LET n == ensure_node_available(S, E, target)
         IN  IF ~n.r THEN [s |-> n.s, r |-> FALSE]
             ELSE LET S1 == [n.s EXCEPT !.codex_install_attempted = TRUE]
                      res == codex_install_argv(E.package, E.node_plain, E.npm)
                  IN  IF ~res.ok /\ res.err = "NodeMissing"
                      THEN [s |-> log_issue(S1, <<"Node portable introuvable. Place node dans tools/node">>,
                                            "erreur", "installation_codex", target),
                            r |-> FALSE]
                      ELSE IF ~res.ok /\ res.err = "NpmMissing"
                      THEN [s |-> log_issue(S1, <<"npm-cli.js introuvable. Verifie ton Node portable (npm inclus).">>,
                                            "erreur", "installation_codex", target),
                            r |-> FALSE]
                      ELSE IF ~res.ok
                      THEN [s |-> log_issue(S1, <<"Impossible d'installer Codex:", res.err>>,
                                            "erreur", "installation_codex", target),
                            r |-> FALSE]
                      ELSE LET S2 == push_log(S1, target, <<"Installation Codex package=">> \o E.package, "default")
                               S3 == push_log(S2, target, <<"$">> \o join_sp(res.argv), "default")
                           IN  [s |-> spawn_process(S3, res.argv, "installation Codex",
                                                    target, "CodexInstall"),
                                r |-> TRUE]

install_codex(S, E, force, target) ==
    IF ~force /\ E.cli THEN [s |-> S, r |-> TRUE]
    ELSE IF ~force /\ S.codex_install_attempted
    THEN [s |-> log_issue(S, <<"Installation Codex deja tentee. (Ctrl+I pour forcer)">>,
                          "avertissement", "installation_codex", target),
          r |-> FALSE]
    ELSE IF ~force /\ ~E.auto_install
    THEN [s |-> log_issue(S, <<"Auto-install Codex desactive. (Ctrl+I pour installer)">>,
                          "avertissement", "installation_codex", target),
          r |-> FALSE]
    ELSE LET n == ensure_node_available(S, E, target)
         IN  IF ~n.r THEN [s |-> n.s, r |-> FALSE]
             ELSE LET S1 == [n.s EXCEPT !.codex_install_attempted = TRUE]
                      res == codex_install_argv(E.package, E.node_plain, E.npm)
                  IN  IF ~res.ok /\ res.err = "NodeMissing"
                      THEN [s |-> log_issue(S1, <<"Node portable introuvable. Place node dans tools/node">>,
                                            "erreur", "installation_codex", target),
                            r |-> FALSE]
                      ELSE IF ~res.ok /\ res.err = "NpmMissing"
                      THEN [s |-> log_issue(S1, <<"npm-cli.js introuvable. Verifie ton Node portable (npm inclus).">>,
                                            "erreur", "installation_codex", target),
                            r |-> FALSE]
                      ELSE IF ~res.ok
                      THEN [s |-> log_issue(S1, <<"Impossible d'installer Codex:", res.err>>,
                                            "erreur", "installation_codex", target),
                            r |-> FALSE]
                      ELSE LET S2 == push_log(S1, target, <<"Installation Codex package=">> \o E.package, "default")
                               S3 == push_log(S2, target, <<"$">> \o join_sp(res.argv), "default")
                           IN  [s |-> spawn_process(S3, res.argv, "installation Codex",
                                                    target, "CodexInstall"),
                                r |-> TRUE]

\* run_codex without the test of the prompt
run_codex_unchecked(S, E, prompt) ==
         LET S1 == IF S.codex_compact_view THEN codex_log_user_message(S, prompt) ELSE S
         IN  IF ~E.cli
             THEN LET n == ensure_node_available(S1, E, "Codex")
                  IN  IF ~n.r THEN n.s
                      ELSE LET i == install_codex(n.s, E, FALSE, "Codex")
                           IN  IF i.r THEN [i.s EXCEPT !.pending_codex_prompt = Some(prompt)]
                               ELSE i.s
             ELSE spawn_process([S1 EXCEPT !.pending_codex_prompt = Some(prompt)],
                                codex_status_argv, "codex_status", "Codex", "CodexStatus")

run_codex(S, E, prompt) ==
    IF prompt = << >> THEN S
    ELSE LET S1 == IF S.codex_compact_view THEN codex_log_user_message(S, prompt) ELSE S
         IN  IF ~E.cli
             THEN LET n == ensure_node_available(S1, E, "Codex")
                  IN  IF ~n.r THEN n.s
                      ELSE LET i == install_codex(n.s, E, FALSE, "Codex")
                           IN  IF i.r THEN [i.s EXCEPT !.pending_codex_prompt = Some(prompt)]
                               ELSE i.s
             ELSE spawn_process([S1 EXCEPT !.pending_codex_prompt = Some(prompt)],
                                codex_status_argv, "codex_status", "Codex", "CodexStatus")

\* ------------------------------------------------- agent output lines
\* the loop over the items of a record (ui/mod.rs:1964-1970)
RECURSIVE log_display_items(_, _)
log_display_items(S, list) ==
    IF list = << >> THEN S
    ELSE LET item == Head(list)
             S1 == CASE item.kind = "Assistant" -> codex_log_message(S, item.message)
                     [] item.kind = "User" -> codex_log_user_message(S, item.message)
                     [] OTHER -> codex_log_action(S, item.message)
         IN  log_display_items(S1, Tail(list))

\* the compact-view arm of an "error" or a "turn.failed" event: http is the
\* start of the notice that carries the status, plain the notice without one
log_failure(S, msg, http, plain) ==
    LET translated == translate_codex_line(msg)
        status == extract_status_code(msg)
    IN  IF IsSome(translated) THEN codex_log_action(S, Unwrap(translated))
        ELSE IF IsSome(status)
        THEN LET S1 == codex_log_action(S, << http, status_text(Unwrap(status)), "." >>)
                 hint == codex_hint_for_status(Unwrap(status))
             IN  IF IsSome(hint) THEN codex_log_action(S1, Unwrap(hint)) ELSE S1
        ELSE codex_log_action(S, << plain >>)

TextDeltaTypes == { <<"response.output_text.delta">>, <<"response.output_text">> }

TextDoneTypes ==
    { <<"response.output_text.done">>, <<"response.output_item.done">>,
      <<"response.completed">> }

\* handle_codex_line from the parsed record on (ui/mod.rs:1885-1975)
handle_codex_value(S, value) ==
    LET event_type == unwrap_or(as_str(get(value, "type")), << >>)
        delta == unwrap_or(as_str(or_else(get(value, "delta"), get(value, "text"))), << >>)
        error == get(value, "error")
        failed_msg ==
            unwrap_or(as_str(IF IsSome(error)
                             THEN or_else(get(Unwrap(error), "message"),
                                          get(Unwrap(error), "text"))
                             ELSE None), << >>)
    IN  IF S.codex_compact_view /\ event_type \in TextDeltaTypes
        THEN [S EXCEPT !.codex_assistant_buffer = @ \o delta]
        ELSE IF S.codex_compact_view /\ event_type \in TextDoneTypes
        THEN IF S.codex_assistant_buffer # << >>
             THEN codex_log_message([S EXCEPT !.codex_assistant_buffer = << >>],
                                    S.codex_assistant_buffer)
             ELSE S
        ELSE IF event_type = <<"error">>
        THEN IF S.codex_compact_view
             THEN log_failure(S, unwrap_or(as_str(get(value, "message")), << >>),
                              "Erreur Codex HTTP",
                              "Erreur Codex: une erreur est survenue. Consulte le journal ou relance.")
             ELSE codex_log_ui(S, <<"Erreur Codex: une erreur est survenue.">>)
        ELSE IF event_type = <<"turn.failed">>
        THEN IF S.codex_compact_view
             THEN log_failure(S, failed_msg, "Tache echouee HTTP",
                              "Tache echouee: une erreur est survenue.")
             ELSE codex_log_ui(S, <<"Tache echouee.">>)
        ELSE IF S.codex_compact_view
        THEN log_display_items(S, extract_display_items(value))
        ELSE IF IsSome(as_str(get(value, "type")))
        THEN codex_log_output(S, <<"[">> \o event_type \o <<"]", " ">> \o to_string(value))
        ELSE codex_log_output(S, to_string(value))

handle_codex_line_strict(S, line) ==
    IF IsSome(from_str(trim(line))) THEN handle_codex_value(S, Unwrap(from_str(trim(line))))
    ELSE S

\* handle_codex_line without the test of the retry marks
handle_codex_line_unmarked(S, line) ==
    LET trimmed == trim(line)
    IN  IF trimmed = << >> THEN S
        ELSE LET sb == handle_sandbox_flag_line(S, trimmed)
                 ap == handle_approval_flag_line(sb.s, trimmed)
             IN  IF sb.r THEN sb.s
                 ELSE IF ap.r THEN ap.s
                 ELSE IF FALSE
                 THEN S
                 ELSE LET translated == translate_codex_line(trimmed)
                          parsed == from_str(trimmed)
                      IN  IF IsSome(translated)
                          THEN IF S.codex_compact_view
                               THEN codex_log_action(S, Unwrap(translated))
                               ELSE codex_log_ui(S, Unwrap(translated))
                          ELSE IF IsSome(parsed)
                          THEN handle_codex_value(S, Unwrap(parsed))
                          ELSE IF S.codex_compact_view
                               THEN codex_log_action(S, trimmed)
                               ELSE codex_log_output(S, trimmed)

handle_codex_line(S, line) ==
    LET trimmed == trim(line)
    IN  IF trimmed = << >> THEN S
        ELSE LET sb == handle_sandbox_flag_line(S, trimmed)
                 ap == handle_approval_flag_line(sb.s, trimmed)
             IN  IF sb.r THEN sb.s
                 ELSE IF ap.r THEN ap.s
                 ELSE IF S.codex_retry_without_sandbox \/ S.codex_retry_without_approval
                 THEN S
                 ELSE LET translated == translate_codex_line(trimmed)
                          parsed == from_str(trimmed)
                      IN  IF IsSome(translated)
                          THEN IF S.codex_compact_view
                               THEN codex_log_action(S, Unwrap(translated))
                               ELSE codex_log_ui(S, Unwrap(translated))
                          ELSE IF IsSome(parsed)
                          THEN handle_codex_value(S, Unwrap(parsed))
                          ELSE IF S.codex_compact_view
                               THEN codex_log_action(S, trimmed)
                               ELSE codex_log_output(S, trimmed)

handle_process_line(S, proc, line) ==
    IF proc.kind = "CodexExec" THEN handle_codex_line(S, line)
    ELSE push_log(S, proc.target, line, "default")

\* the launch of `codex exec` shared by the two arms of handle_process_exit:
\* the extra arguments, the two "flag was used" markers, the argv
launch_flags(S) ==
    LET extra_args == codex_exec_extra_args(S)
    IN  [S EXCEPT !.codex_exec_used_sandbox_flag =
                      \E i \in 1..Len(extra_args) : extra_args[i] = Str("--sandbox"),
                  !.codex_exec_used_approval_flag =
                      \E i \in 1..Len(extra_args) : extra_args[i] = Str("--ask-for-approval")]

take_pending_codex_prompt_kept(S) == S

\* self.pending_codex_prompt.take(): the slot is left empty
take_pending_codex_prompt(S) == [S EXCEPT !.pending_codex_prompt = None]

\* handle_process_exit launching the exec whatever the status check returned
handle_process_exit_any_code(S, E, proc, code) ==
    CASE proc.kind = "CodexStatus" ->
           IF IsSome(S.pending_codex_prompt)
           THEN LET prompt == Unwrap(S.pending_codex_prompt)
                    S0 == take_pending_codex_prompt(S)
                IN  IF code = code
                    THEN LET S1 == [launch_flags(S0) EXCEPT !.codex_last_prompt = Some(prompt)]
                             res == codex_exec_argv(prompt, TRUE, codex_exec_extra_args(S0))
                         IN  IF res.ok
                             THEN spawn_process(
                                      IF ~S1.codex_compact_view
                                      THEN codex_log_ui(S1, <<"$">> \o join_sp(res.argv))
                                      ELSE S1,
                                      res.argv, "codex_exec", "Codex", "CodexExec")
                             ELSE log_issue(S1, <<"Erreur Codex:", res.err>>,
                                            "erreur", "codex_exec", "Codex")
                    ELSE LET S1 == codex_log_action(S0, <<"Echec de la verification du login Codex (status en erreur).">>)
                             S2 == codex_log_action(S1, <<"Si tu n'es pas authentifie, fais Login puis recommence.">>)
                             S3 == codex_log_action(S2, <<"Si tu es deja authentifie, verifie l'installation et la connexion.">>)
                         IN  IF ~E.device_auth
                             THEN codex_log_action(S3, <<"Astuce: si le navigateur ne s'ouvre pas, definis USBIDE_CODEX_DEVICE_AUTH=1 puis Ctrl+K.">>)
                             ELSE S3
           ELSE S
      [] proc.kind = "CodexExec" ->
           LET S1 == IF S.codex_compact_view /\ S.codex_assistant_buffer # << >>
                     THEN codex_log_message([S EXCEPT !.codex_assistant_buffer = << >>],
                                            S.codex_assistant_buffer)
                     ELSE S
           IN  IF S1.codex_retry_without_sandbox \/ S1.codex_retry_without_approval
               THEN LET S2 == [S1 EXCEPT !.codex_retry_without_sandbox = FALSE,
                                         !.codex_retry_without_approval = FALSE]
                    IN  IF IsSome(S2.codex_last_prompt)
                        THEN LET prompt == Unwrap(S2.codex_last_prompt)
                                 S3 == launch_flags(S2)
                                 res == codex_exec_argv(prompt, TRUE, codex_exec_extra_args(S2))
                             IN  IF res.ok
                                 THEN spawn_process(
                                          codex_log_ui(S3, <<"$">> \o join_sp(res.argv)),
                                          res.argv, "codex_exec", "Codex", "CodexExec")
                                 ELSE S3
                        ELSE S2
               ELSE S1
      [] proc.kind = "CodexInstall" ->
           IF E.cli
           THEN LET S1 == codex_log_ui(S, <<"Codex installe.">>)
                IN  IF IsSome(S1.pending_codex_prompt)
                    THEN run_codex(take_pending_codex_prompt(S1), E,
                                   Unwrap(S1.pending_codex_prompt))
                    ELSE S1
           ELSE S
      [] OTHER -> S

handle_process_exit(S, E, proc, code) ==
    CASE proc.kind = "CodexStatus" ->
           IF IsSome(S.pending_codex_prompt)
           THEN LET prompt == Unwrap(S.pending_codex_prompt)
                    S0 == take_pending_codex_prompt(S)
                IN  IF code = Some(0)
                    THEN LET S1 == [launch_flags(S0) EXCEPT !.codex_last_prompt = Some(prompt)]
                             res == codex_exec_argv(prompt, TRUE, codex_exec_extra_args(S0))
                         IN  IF res.ok
                             THEN spawn_process(
                                      IF ~S1.codex_compact_view
                                      THEN codex_log_ui(S1, <<"$">> \o join_sp(res.argv))
                                      ELSE S1,
                                      res.argv, "codex_exec", "Codex", "CodexExec")
                             ELSE log_issue(S1, <<"Erreur Codex:", res.err>>,
                                            "erreur", "codex_exec", "Codex")
                    ELSE LET S1 == codex_log_action(S0, <<"Echec de la verification du login Codex (status en erreur).">>)
                             S2 == codex_log_action(S1, <<"Si tu n'es pas authentifie, fais Login puis recommence.">>)
                             S3 == codex_log_action(S2, <<"Si tu es deja authentifie, verifie l'installation et la connexion.">>)
                         IN  IF ~E.device_auth
                             THEN codex_log_action(S3, <<"Astuce: si le navigateur ne s'ouvre pas, definis USBIDE_CODEX_DEVICE_AUTH=1 puis Ctrl+K.">>)
                             ELSE S3
           ELSE S
      [] proc.kind = "CodexExec" ->
           LET S1 == IF S.codex_compact_view /\ S.codex_assistant_buffer # << >>
                     THEN codex_log_message([S EXCEPT !.codex_assistant_buffer = << >>],
                                            S.codex_assistant_buffer)
                     ELSE S
           IN  IF S1.codex_retry_without_sandbox \/ S1.codex_retry_without_approval
               THEN LET S2 == [S1 EXCEPT !.codex_retry_without_sandbox = FALSE,
                                         !.codex_retry_without_approval = FALSE]
                    IN  IF IsSome(S2.codex_last_prompt)
                        THEN LET prompt == Unwrap(S2.codex_last_prompt)
                                 S3 == launch_flags(S2)
                                 res == codex_exec_argv(prompt, TRUE, codex_exec_extra_args(S2))
                             IN  IF res.ok
                                 THEN spawn_process(
                                          codex_log_ui(S3, <<"$">> \o join_sp(res.argv)),
                                          res.argv, "codex_exec", "Codex", "CodexExec")
                                 ELSE S3
                        ELSE S2
               ELSE S1
      [] proc.kind = "CodexInstall" ->
           IF E.cli
           THEN LET S1 == codex_log_ui(S, <<"Codex installe.">>)
                IN  IF IsSome(S1.pending_codex_prompt)
                    THEN run_codex(take_pending_codex_prompt(S1), E,
                                   Unwrap(S1.pending_codex_prompt))
                    ELSE S1
           ELSE S
      [] OTHER -> S

\* the Exit arm of drain_process_events (ui/mod.rs:1711-1725)
drain_exit(S, E, proc, event) ==
    LET S1 == IF IsSome(event.returncode) /\ Unwrap(event.returncode) # 0
              THEN log_issue(S, <<proc.contexte, "terminee en erreur", "rc=1">>,
                             "erreur", proc.contexte, proc.target)
              ELSE S
    IN  handle_process_exit(S1, E, proc, event.returncode)

\* ------------------------------------------------------- the environment
\* what a child may write: one line with its terminator
ExecLines ==
    { <<"error:", "unexpected argument", "--sandbox", "found", "\n">>,
      <<"error:", "invalid value", "--sandbox", "\r", "\n">>,
      <<"Error:", "Unexpected Argument", "--ask-for-approval", "\n">>,
      <<"error:", "invalid value", "--ask-for-approval", "\n">>,
      <<"error:", "unrecognized", "--sandbox", "--ask-for-approval", "\n">>,
      <<"hello", "\n">> }

ShellLines == { <<"out", "\r", "\n">> }

ChildLines(argv) ==
    IF contains(argv, Str("exec")) THEN ExecLines
    ELSE IF contains(argv, Str("sh")) THEN ShellLines
    ELSE { }

\* ExitStatus::code(): Some(code), or None when killed by a signal
\* (enumerated for shell children only: the drain loop does not read the text
\* of an Exit event, so to the handlers a child killed by a signal is the
\* event of a spawn failure)
ExitCodes(argv) ==
    IF contains(argv, Str("sh")) THEN { Some(0), Some(1), None }
    ELSE { Some(0), Some(1) }

\* the k-th prompt the user submits: "x", "x x", ...
Prompt(k) == [i \in 1..k |-> "x"]

Prompts == { Prompt(k) : k \in 1..MaxPrompts }

Streams == {"out", "err"}

\* ------------------------------------------------------------------ Init
NoHandle == [h \in Handles |-> "none"]

\* App::new (ui/mod.rs:374-424), with no USBIDE_* variable set
InitApp ==
    LET S0 == [running |-> << >>, log |-> << >>, codex_log |-> << >>,
               codex_compact_view |-> TRUE,
               codex_sandbox_mode |-> "workspace-write",
               codex_approval_policy |-> "never",
               codex_sandbox_supported |-> None,
               codex_approval_supported |-> None,
               codex_exec_used_sandbox_flag |-> FALSE,
               codex_exec_used_approval_flag |-> FALSE,
               codex_last_prompt |-> None,
               pending_codex_prompt |-> None,
               codex_retry_without_sandbox |-> FALSE,
               codex_retry_without_approval |-> FALSE,
               last_codex_message |-> None,
               codex_assistant_buffer |-> << >>,
               codex_install_attempted |-> FALSE,
               wpc |-> NoHandle,
               wargv |-> [h \in Handles |-> << >>],
               nspawned |-> 0]
        S1 == log_ui(S0, <<"ValDev Pro v1", "\n", "Root: .", "\n", "Shell: champ 'Commande'", "\n">>)
        S2 == codex_log_ui(S1, <<"Sandbox Codex:", codex_sandbox_label(S1.codex_sandbox_mode)>>)
    IN  codex_log_ui(S2, <<"Approbations Codex:", codex_approval_label(S2.codex_approval_policy)>>)

\* no function is called
NoCall == [fn |-> "none"]

InitCommon ==
    /\ running = InitApp.running
    /\ log = InitApp.log
    /\ codex_log = InitApp.codex_log
    /\ codex_compact_view = InitApp.codex_compact_view
    /\ codex_sandbox_mode = InitApp.codex_sandbox_mode
    /\ codex_approval_policy = InitApp.codex_approval_policy
    /\ codex_sandbox_supported = InitApp.codex_sandbox_supported
    /\ codex_approval_supported = InitApp.codex_approval_supported
    /\ codex_exec_used_sandbox_flag = InitApp.codex_exec_used_sandbox_flag
    /\ codex_exec_used_approval_flag = InitApp.codex_exec_used_approval_flag
    /\ codex_last_prompt = InitApp.codex_last_prompt
    /\ pending_codex_prompt = InitApp.pending_codex_prompt
    /\ codex_retry_without_sandbox = InitApp.codex_retry_without_sandbox
    /\ codex_retry_without_approval = InitApp.codex_retry_without_approval
    /\ last_codex_message = InitApp.last_codex_message
    /\ codex_assistant_buffer = InitApp.codex_assistant_buffer
    /\ codex_install_attempted = InitApp.codex_install_attempted
    /\ wpc = InitApp.wpc
    /\ wargv = InitApp.wargv
    /\ nspawned = InitApp.nspawned
    /\ wstatus = [h \in Handles |-> None]
    /\ rdr = [h \in Handles |-> [out |-> "none", err |-> "none"]]
    /\ nlines = [h \in Handles |-> 0]
    /\ chan = [h \in Handles |-> << >>]
    /\ active = << >>
    /\ remaining = << >>
    /\ main_pc = "idle"
    /\ nui = 0
    /\ nprompts = 0
    /\ ncalls = 0
    /\ last_argv = << >>
    /\ sent = [h \in Handles |-> << >>]
    /\ retry_marked_prompts = { }
    /\ observed = { }
    /\ notices = [sandbox |-> 0, approval |-> 0]
    /\ launches = [p \in Prompts |-> [slot |-> 0, retry |-> 0]]
    /\ rejected = [h \in Handles |-> { }]
    /\ env_auto_install = TRUE
    /\ env_device_auth = FALSE
    /\ display_items = << >>
    /\ normalized = FALSE
    /\ nagent = 0
    /\ result = << >>
    /\ returned = FALSE

Init ==
    /\ InitCommon
    /\ record = JNull
    /\ call = NoCall
    /\ log_kept = FALSE
    /\ fs_codex = TRUE
    /\ fs_node = TRUE
    /\ fs_npm = TRUE

\* ------------------------------------------- process/mod.rs: the threads
\* tx.send(event): the channel is unbounded, the send never blocks
\* the Receiver of the channel of h exists: the application holds the
\* ProcHandle, in running or in the lists of a drain
ReceiverAlive(h) ==
    \/ \E i \in 1..Len(running) : running[i].handle = h
    \/ \E i \in 1..Len(active) : active[i].handle = h
    \/ \E i \in 1..Len(remaining) : remaining[i].handle = h

\* a send on a channel of capacity one that needs its Receiver: it waits
\* while an event is queued or the Receiver is gone
Send_bounded(h, event) ==
    /\ ReceiverAlive(h)
    /\ chan[h] = << >>
    /\ chan' = [chan EXCEPT ![h] = Append(@, event)]
    /\ sent' = [sent EXCEPT ![h] = Append(@, [kind |-> event.kind, returncode |-> event.returncode])]

\* let _ = tx.send(event) on the unbounded channel: the event is queued, or
\* the Receiver is gone, send returns Err and the thread goes on
Send(h, event) ==
    /\ chan' = IF ReceiverAlive(h) THEN [chan EXCEPT ![h] = Append(@, event)] ELSE chan
    /\ sent' = IF ReceiverAlive(h)
               THEN [sent EXCEPT ![h] = Append(@, [kind |-> event.kind,
                                                   returncode |-> event.returncode])]
               ELSE sent

WorkerSpawn_code(h) ==
    /\ wpc[h] = "start"
    /\ \E started \in BOOLEAN :
         IF started
         THEN /\ wpc' = [wpc EXCEPT ![h] = "wait"]
              /\ rdr' = [rdr EXCEPT ![h] = [out |-> "run", err |-> "run"]]
              /\ UNCHANGED <<chan, sent>>
         ELSE /\ wpc' = [wpc EXCEPT ![h] = "exiting"]
              /\ Send(h, ExitEvent(Some(1)))
              /\ rdr' = rdr
    /\ UNCHANGED <<wargv, wstatus, nlines, nspawned, app_vars, env_vars, norm_vars, user_vars, app_hist>>

\* cmd.spawn() in the worker thread: the child starts and the two readers are
\* spawned, or the OS refuses and the worker sends the synthetic Exit
WorkerSpawn(h) ==
    /\ wpc[h] = "start"
    /\ \E started \in BOOLEAN :
         IF started
         THEN /\ wpc' = [wpc EXCEPT ![h] = "wait"]
              /\ rdr' = [rdr EXCEPT ![h] = [out |-> "run", err |-> "run"]]
              /\ UNCHANGED <<chan, sent>>
         ELSE /\ wpc' = [wpc EXCEPT ![h] = "exiting"]
              /\ Send(h, SpawnErrEvent)
              /\ rdr' = rdr
    /\ UNCHANGED <<wargv, wstatus, nlines, nspawned, app_vars, env_vars, norm_vars, user_vars, app_hist>>

\* a reader thread: read_line returned Ok(n > 0); the line is sent
ReaderLine(h, st) ==
    /\ rdr[h][st] = "run"
    /\ nlines[h] < MaxLines
    /\ \E raw \in ChildLines(wargv[h]) :
         Send(h, LineEvent(trim_end_matches_nl(raw)))
    /\ nlines' = [nlines EXCEPT ![h] = @ + 1]
    /\ UNCHANGED <<wpc, wargv, wstatus, rdr, nspawned, app_vars, env_vars, norm_vars, user_vars, app_hist>>

\* a reader thread: read_line returned Ok(0) or Err; the thread ends
ReaderEof(h, st) ==
    /\ rdr[h][st] = "run"
    /\ rdr' = [rdr EXCEPT ![h][st] = "done"]
    /\ UNCHANGED <<wpc, wargv, wstatus, nlines, chan, nspawned, app_vars, env_vars, norm_vars, user_vars, hist_vars>>

\* child.wait() returns
WorkerWait(h) ==
    /\ wpc[h] = "wait"
    /\ \E code \in ExitCodes(wargv[h]) : wstatus' = [wstatus EXCEPT ![h] = code]
    /\ wpc' = [wpc EXCEPT ![h] = "join"]
    /\ UNCHANGED <<wargv, rdr, nlines, chan, nspawned, app_vars, env_vars, norm_vars, user_vars, hist_vars>>

WorkerSendExit_unjoined(h) ==
    /\ wpc[h] = "join"
    /\ Send(h, ExitEvent(wstatus[h]))
    /\ wpc' = [wpc EXCEPT ![h] = "exiting"]
    /\ UNCHANGED <<wargv, wstatus, rdr, nlines, nspawned, app_vars, env_vars, norm_vars, user_vars, app_hist>>

\* both readers joined; the Exit event is sent
WorkerSendExit(h) ==
    /\ wpc[h] = "join"
    /\ rdr[h].out = "done" /\ rdr[h].err = "done"
    /\ Send(h, ExitEvent(wstatus[h]))
    /\ wpc' = [wpc EXCEPT ![h] = "exiting"]
    /\ UNCHANGED <<wargv, wstatus, rdr, nlines, nspawned, app_vars, env_vars, norm_vars, user_vars, app_hist>>

\* the worker's closure returns
WorkerFinish(h) ==
    /\ wpc[h] = "exiting"
    /\ wpc' = [wpc EXCEPT ![h] = "done"]
    /\ UNCHANGED <<wargv, wstatus, rdr, nlines, chan, nspawned, app_vars, env_vars, norm_vars, user_vars, hist_vars>>

\* the worker thread of handle h
Worker(h) == WorkerSpawn(h) \/ WorkerWait(h) \/ WorkerSendExit(h) \/ WorkerFinish(h)

Engine ==
    \E h \in Handles :
        \/ Worker(h)
        \/ \E st \in Streams : ReaderLine(h, st)
        \/ \E st \in Streams : ReaderEof(h, st)

\* The same threads, seen from the channel: every step of the worker and the
\* readers between two sends touches only thread-local state, so the steps up
\* to and including the next send are taken as one.  These run between two
\* drains; a send that falls inside a drain has the effect of one before it
\* (if its handle is polled afterwards) or after it.
\* ToSpawnErr with the worker also emptying the pending slot of the
\* application
ToSpawnErr_clearing(h) ==
    /\ main_pc = "idle"
    /\ wpc[h] = "start"
    /\ wpc' = [wpc EXCEPT ![h] = "done"]
    /\ Send(h, SpawnErrEvent)
    /\ pending_codex_prompt' = None
    /\ UNCHANGED <<wargv, wstatus, rdr, nlines, nspawned, env_vars, norm_vars, user_vars,
                   app_hist, running, active, remaining, main_pc, log, codex_log,
                   codex_compact_view, codex_sandbox_mode, codex_approval_policy,
                   codex_sandbox_supported, codex_approval_supported,
                   codex_exec_used_sandbox_flag, codex_exec_used_approval_flag,
                   codex_last_prompt, codex_retry_without_sandbox,
                   codex_retry_without_approval, last_codex_message,
                   codex_assistant_buffer, codex_install_attempted>>

\* WorkerSpawn fails, the synthetic Exit is sent, the worker ends
ToSpawnErr(h) ==
    /\ main_pc = "idle"
    /\ wpc[h] = "start"
    /\ wpc' = [wpc EXCEPT ![h] = "done"]
    /\ Send(h, SpawnErrEvent)
    /\ UNCHANGED <<wargv, wstatus, rdr, nlines, nspawned, app_vars, env_vars, norm_vars, user_vars, app_hist>>

\* (WorkerSpawn succeeds and) a reader sends a line
ToLine(h) ==
    /\ main_pc = "idle"
    /\ wpc[h] \in {"start", "wait"}
    /\ nlines[h] < MaxLines
    /\ \E raw \in ChildLines(wargv[h]) :
         Send(h, LineEvent(trim_end_matches_nl(raw)))
    /\ nlines' = [nlines EXCEPT ![h] = @ + 1]
    /\ wpc' = [wpc EXCEPT ![h] = "wait"]
    /\ rdr' = [rdr EXCEPT ![h] = [out |-> "run", err |-> "run"]]
    /\ UNCHANGED <<wargv, wstatus, nspawned, app_vars, env_vars, norm_vars, user_vars, app_hist>>

\* (WorkerSpawn succeeds,) both readers reach end-of-stream, child.wait()
\* returns, the readers are joined, Exit is sent and the worker ends
ToExit(h) ==
    /\ main_pc = "idle"
    /\ wpc[h] \in {"start", "wait"}
    /\ \E code \in ExitCodes(wargv[h]) :
         /\ wstatus' = [wstatus EXCEPT ![h] = code]
         /\ Send(h, ExitEvent(code))
    /\ wpc' = [wpc EXCEPT ![h] = "done"]
    /\ rdr' = [rdr EXCEPT ![h] = [out |-> "done", err |-> "done"]]
    /\ UNCHANGED <<wargv, nlines, nspawned, app_vars, env_vars, norm_vars, user_vars, app_hist>>

Threads == \E h \in Handles : ToSpawnErr(h) \/ ToLine(h) \/ ToExit(h)

\* the install child (npm install --prefix ...) has written the agent CLI
\* into the prefix: codex_cli_available now finds it
ToInstalled(h) ==
    /\ main_pc = "idle"
    /\ wpc[h] \in {"start", "wait"}
    /\ contains(wargv[h], Str("install"))
    /\ ~fs_codex
    /\ fs_codex' = TRUE
    /\ wpc' = [wpc EXCEPT ![h] = "wait"]
    /\ rdr' = [rdr EXCEPT ![h] = [out |-> "run", err |-> "run"]]
    /\ UNCHANGED <<wargv, wstatus, nlines, chan, nspawned, app_vars, fs_node, fs_npm,
                   env_auto_install, env_device_auth, log_kept, user_vars, hist_vars,
                   norm_vars>>

\* ------------------------------------ ui/mod.rs: drain_process_events
\* whether handling `line` sets a retry mark
marks_retry(S, line) ==
    LET t == trim(line)
    IN  t # << >> /\ (handle_sandbox_flag_line(S, t).r \/ handle_approval_flag_line(S, t).r)

\* what `line`, handled now, says about the flags in use (the flags the
\* latest launch passed): "argument" when it names the flag with one of the
\* argument-rejection phrases, "value" when it names it with "invalid value"
\* or "possible values"
observed_in(S, line) ==
    LET lower == to_lowercase(trim(line))
        used == [sandbox |-> S.codex_exec_used_sandbox_flag,
                 approval |-> S.codex_exec_used_approval_flag]
        token == [sandbox |-> "--sandbox", approval |-> "--ask-for-approval"]
    IN  { o \in [flag : {"sandbox", "approval"}, what : {"argument", "value"}] :
            /\ used[o.flag]
            /\ contains(lower, token[o.flag])
            /\ IF o.what = "argument"
               THEN \/ contains(lower, "unexpected argument")
                    \/ contains(lower, "unknown argument")
                    \/ contains(lower, "unrecognized")
               ELSE \/ contains(lower, "invalid value")
                    \/ contains(lower, "possible values") }

\* the lines a handler appended to the Codex log
appended(S, T) == SubSeq(T.codex_log, Len(S.codex_log) + 1, Len(T.codex_log))

\* the downgrade notices logged so far, after a handler took S to T
count_notices(S, T) ==
    LET new == appended(S, T)
    IN  [sandbox |-> S.notices.sandbox
                     + Cardinality({ i \in 1..Len(new) : new[i].text = NoticeSandbox }),
         approval |-> S.notices.approval
                     + Cardinality({ i \in 1..Len(new) : new[i].text = NoticeApproval })]

\* the prompt an exec argv carries
prompt_of(argv) == argv[Len(argv)]

\* the flags that `line` rejects, by its text alone
rejects(line) ==
    LET t == trim(line)
    IN  (IF sandbox_flag_error(t) \/ sandbox_value_error(t) THEN {"sandbox"} ELSE { })
        \cup (IF approval_flag_error(t) THEN {"approval"} ELSE { })

\* whether the handler that took S to T launched an agent invocation
launched_exec(S, T) ==
    /\ T.nspawned = S.nspawned + 1
    /\ T.running # << >>
    /\ T.running[Len(T.running)].kind = "CodexExec"

\* the launches so far, after the exit handler of a process of `kind` took S to T
count_launches(S, T, kind) ==
    IF launched_exec(S, T) /\ prompt_of(T.wargv[T.nspawned]) \in Prompts
    THEN LET p == prompt_of(T.wargv[T.nspawned])
         IN  IF kind = "CodexExec"
             THEN [S.launches EXCEPT ![p].retry = @ + 1]
             ELSE [S.launches EXCEPT ![p].slot = @ + 1]
    ELSE S.launches

\* std::mem::take(&mut self.running) at the start of a drain
drain_start(S) ==
    [S EXCEPT !.active = S.running, !.running = << >>, !.remaining = << >>,
              !.main_pc = "poll"]

\* the channel and the history after a Line event: S is the App before the
\* line is handled, T the App after it
line_polled(S, T, proc, h, text) ==
        [T EXCEPT !.chan = [@ EXCEPT ![h] = Tail(@)],
                  !.retry_marked_prompts =
                      IF proc.kind = "CodexExec" /\ marks_retry(S, text)
                      THEN @ \cup { prompt_of(S.wargv[h]) } ELSE @,
                  !.observed =
                      IF proc.kind = "CodexExec" THEN @ \cup observed_in(S, text) ELSE @,
                  !.notices = count_notices(S, T),
                  !.rejected =
                      IF proc.kind = "CodexExec"
                      THEN [@ EXCEPT ![h] = @ \cup rejects(text)] ELSE @]

\* try_recv returned a Line event
poll_line(S) ==
    LET proc == Head(S.active)
        text == Head(S.chan[proc.handle]).text
    IN  line_polled(S, handle_process_line(S, proc, text), proc, proc.handle, text)

\* the channel and the history after the Exit event: S is the App before the
\* exit is handled, T the App after it
exit_polled(S, T, proc, h) ==
        [T EXCEPT !.chan = [@ EXCEPT ![h] = Tail(@)],
                  !.retry_marked_prompts = IF proc.kind = "CodexExec" THEN { } ELSE @,
                  !.notices = count_notices(S, T),
                  !.launches = count_launches(S, T, proc.kind),
                  !.rejected = [@ EXCEPT ![h] = { }],
                  !.main_pc = "join"]

\* try_recv returned the Exit event: the exit is handled, the loop is left
poll_exit(S, E) ==
    LET proc == Head(S.active)
    IN  exit_polled(S, drain_exit(S, E, proc, Head(S.chan[proc.handle])), proc, proc.handle)

\* the end of a drain: the handles still running, then those spawned meanwhile
\* drain_process_events ending with self.running = remaining
drain_finish_dropping(S) ==
    [S EXCEPT !.running = S.remaining, !.remaining = << >>, !.main_pc = "idle"]

drain_finish(S) ==
    [S EXCEPT !.running = S.remaining \o S.running, !.remaining = << >>,
              !.main_pc = "idle"]

PollLine ==
    /\ main_pc = "poll"
    /\ active # << >>
    /\ chan[Head(active).handle] # << >>
    /\ Head(chan[Head(active).handle]).kind = "Line"
    /\ Commit(poll_line(Cur))
    /\ UNCHANGED <<env_vars, norm_vars, user_vars>>

PollExit ==
    /\ main_pc = "poll"
    /\ active # << >>
    /\ chan[Head(active).handle] # << >>
    /\ Head(chan[Head(active).handle]).kind = "Exit"
    /\ \E S \in { poll_exit(Cur, Env) } :
           S.nspawned <= MaxSpawns /\ Commit(S)
    /\ UNCHANGED <<env_vars, norm_vars, user_vars>>

PollEmpty_blocking ==
    /\ main_pc = "poll"
    /\ FALSE
    /\ UNCHANGED vars

\* try_recv returned Err(Empty): the handle stays in the running set
PollEmpty ==
    /\ main_pc = "poll"
    /\ active # << >>
    /\ chan[Head(active).handle] = << >>
    /\ remaining' = Append(remaining, Head(active))
    /\ active' = Tail(active)
    /\ UNCHANGED <<engine_vars, env_vars, norm_vars, user_vars, hist_vars, running, main_pc, log,
                   codex_log, codex_compact_view, codex_sandbox_mode,
                   codex_approval_policy, codex_sandbox_supported,
                   codex_approval_supported, codex_exec_used_sandbox_flag,
                   codex_exec_used_approval_flag, codex_last_prompt,
                   pending_codex_prompt, codex_retry_without_sandbox,
                   codex_retry_without_approval, last_codex_message,
                   codex_assistant_buffer, codex_install_attempted>>

\* ProcHandle::join returns once the worker thread has ended; the handle and
\* everything it owns are dropped
Join ==
    /\ main_pc = "join"
    /\ LET h == Head(active).handle
       IN  /\ wpc[h] = "done"
           /\ wpc' = [wpc EXCEPT ![h] = "joined"]
           /\ wargv' = [wargv EXCEPT ![h] = << >>]
           /\ wstatus' = [wstatus EXCEPT ![h] = None]
           /\ rdr' = [rdr EXCEPT ![h] = [out |-> "none", err |-> "none"]]
           /\ nlines' = [nlines EXCEPT ![h] = 0]
           /\ chan' = [chan EXCEPT ![h] = << >>]
           /\ sent' = [sent EXCEPT ![h] = << >>]
    /\ active' = Tail(active)
    /\ main_pc' = "poll"
    /\ UNCHANGED <<nspawned, env_vars, norm_vars, user_vars, app_hist, running, remaining, log,
                   codex_log, codex_compact_view, codex_sandbox_mode,
                   codex_approval_policy, codex_sandbox_supported,
                   codex_approval_supported, codex_exec_used_sandbox_flag,
                   codex_exec_used_approval_flag, codex_last_prompt,
                   pending_codex_prompt, codex_retry_without_sandbox,
                   codex_retry_without_approval, last_codex_message,
                   codex_assistant_buffer, codex_install_attempted>>

DrainStart ==
    /\ main_pc = "idle"
    /\ running # << >>
    /\ Commit(drain_start(Cur))
    /\ UNCHANGED <<env_vars, norm_vars, user_vars>>

DrainFinish ==
    /\ main_pc = "poll"
    /\ active = << >>
    /\ Commit(drain_finish(Cur))
    /\ UNCHANGED <<env_vars, norm_vars, user_vars>>

\* A drain that starts with an event waiting.  With the threads taken from one
\* send to the next, a send that falls inside a drain has the effect of one
\* before it or after it, and a drain that finds every channel empty changes
\* nothing.
DrainWaiting ==
    /\ \E i \in 1..Len(running) : chan[running[i].handle] # << >>
    /\ DrainStart

Drain == DrainWaiting \/ PollLine \/ PollExit \/ PollEmpty \/ Join \/ DrainFinish

\* ------------------------------------------------------- user actions
\* a key press handled between two drains (App::run, ui/mod.rs:435-450)
UserStep(S) ==
    /\ main_pc = "idle"
    /\ nui < MaxUserActions
    /\ Commit(S)
    /\ nui' = nui + 1
    /\ UNCHANGED <<env_vars, norm_vars, nprompts, ncalls, last_argv>>

\* Enter in the Codex input field: the trimmed, non-empty value is submitted
\* (InputField::handle_key, ui/mod.rs:147-155; handle_codex_key)
RunCodex ==
    /\ main_pc = "idle"
    /\ nprompts < MaxPrompts
    /\ \E S \in { run_codex(Cur, Env, Prompt(nprompts + 1)) } :
           S.nspawned <= MaxSpawns /\ Commit(S)
    /\ nprompts' = nprompts + 1
    /\ UNCHANGED <<env_vars, norm_vars, nui, ncalls, last_argv>>

ToggleSandbox == UserStep(action_toggle_codex_sandbox(Cur))

ToggleApproval == UserStep(action_toggle_codex_approval(Cur))

ToggleView == UserStep(action_toggle_codex_view(Cur))

ClearLog == UserStep(action_clear_log(Cur))

\* a caller of spawn_process with an argv of its choice, the empty one included
EngineArgvs == { << >>, << Str("sh"), Str("-lc"), <<"ls">> >> }

SpawnCall ==
    \E argv \in EngineArgvs :
        /\ main_pc = "idle"
        /\ ncalls < MaxEngineCalls
        /\ Commit(spawn_process(Cur, argv, "commande shell", "Main", "Shell"))
        /\ ncalls' = ncalls + 1
        /\ last_argv' = argv
        /\ UNCHANGED <<env_vars, norm_vars, nui, nprompts>>

\* ------------------------------------------------------- specifications
\* the orchestrator: prompts and toggles, the threads from send to send
Next == Threads \/ Drain \/ RunCodex \/ ToggleSandbox \/ ToggleApproval \/ ClearLog

Spec == Init /\ [][Next]_vars

\* the engine under an arbitrary caller: every thread step on its own, the
\* drain loop step by step, the main log recorded
InitEngine ==
    /\ InitCommon
    /\ record = JNull
    /\ call = NoCall
    /\ log_kept = TRUE
    /\ fs_codex = TRUE
    /\ fs_node = TRUE
    /\ fs_npm = TRUE

DrainSteps == DrainStart \/ PollLine \/ PollExit \/ PollEmpty \/ Join \/ DrainFinish

NextEngine == SpawnCall \/ Engine \/ DrainSteps

\* the OS schedules every thread; a child ends and closes its streams; a
\* join returns once its thread has ended
FairEngine ==
    /\ \A h \in 1..MaxEngineCalls :
          /\ WF_vars(Worker(h))
          /\ \A st \in Streams : WF_vars(ReaderEof(h, st))
    /\ WF_vars(Join)

SpecEngine == InitEngine /\ [][NextEngine]_vars /\ FairEngine

\* the orchestrator started without the agent CLI: the first prompt installs it
InitInstall ==
    /\ InitCommon
    /\ record = JNull
    /\ call = NoCall
    /\ log_kept = FALSE
    /\ fs_codex = FALSE
    /\ fs_node = TRUE
    /\ fs_npm = TRUE

NextInstall == Threads \/ (\E h \in Handles : ToInstalled(h)) \/ Drain \/ RunCodex

SpecInstall == InitInstall /\ [][NextInstall]_vars

\* ------------------------------------ one call of extract_display_items
\* The records the agent can print: the two lines of the tests of
\* codex/mod.rs and the tool-call record, read by from_str, and records
\* built from the parts below.
BonjourLine ==
    << "{", "\"", "type", "\"", ":", "\"", "response_item", "\"", ",",
       "\"", "payload", "\"", ":", "{",
       "\"", "type", "\"", ":", "\"", "message", "\"", ",",
       "\"", "role", "\"", ":", "\"", "assistant", "\"", ",",
       "\"", "content", "\"", ":", "[", "{",
       "\"", "type", "\"", ":", "\"", "output_text", "\"", ",",
       "\"", "text", "\"", ":", "\"", "Bonjour", "\"", "}", "]", "}", "}" >>

SalutLine ==
    << "{", "\"", "type", "\"", ":", "\"", "event_msg", "\"", ",",
       "\"", "payload", "\"", ":", "{",
       "\"", "type", "\"", ":", "\"", "agent_message", "\"", ",",
       "\"", "message", "\"", ":", "\"", "Salut", "\"", "}", "}" >>

ToolCallLine ==
    << "{", "\"", "type", "\"", ":", "\"", "tool_call", "\"", ",",
       "\"", "name", "\"", ":", "\"", "list_files", "\"", ",",
       "\"", "arguments", "\"", ":", "{",
       "\"", "path", "\"", ":", "\"", ".", "\"", "}", "}" >>

ListFiles ==
    JObj(<< Member("type", JStr(<<"tool_call">>)),
            Member("name", JStr(<<"list_files">>)),
            Member("arguments", JObj(<< Member("path", JStr(<<".">>)) >>)) >>)

MaxParts == 2

LineRecords == { Unwrap(from_str(l)) : l \in { BonjourLine, SalutLine, ToolCallLine } }

Records ==
    LET \* the parts of a content array
        ContentParts ==
            { JObj(<< Member("type", JStr(<<"output_text">>)), Member("text", JStr(<<"Bonjour">>)) >>),
              JObj(<< Member("type", JStr(<<"text">>)), Member("content", JStr(<<"Salut">>)) >>),
              JObj(<< Member("type", JStr(<<"output_text">>)), Member("text", JStr(<< >>)) >>),
              JObj(<< Member("type", JStr(<<"image">>)), Member("text", JStr(<<"Bonjour">>)) >>),
              JStr(<<"Bonjour">>),
              JStr(<< >>) }
        Contents ==
            { JArr(parts) : parts \in UNION { [1..n -> ContentParts] : n \in 0..MaxParts } }
            \cup { JStr(<<"Bonjour">>), JStr(<< >>), JNull }
        \* message records: response_item with a message payload
        MessageRecords ==
            { JObj(<< Member("type", JStr(<<"response_item">>)),
                      Member("payload",
                             JObj(<< Member("type", JStr(<<"message">>)),
                                     Member("role", JStr(<< role >>)),
                                     Member("content", content),
                                     Member("message", JStr(<<"Salut">>)) >>)) >>) :
                role \in {"assistant", "user", "system"}, content \in Contents }
        \* event_msg records with an agent or a user message
        EventMsgRecords ==
            { JObj(<< Member("type", JStr(<<"event_msg">>)),
                      Member("payload",
                             JObj(<< Member("type", JStr(<< ptype >>)),
                                     Member(field, JStr(text)) >>)) >>) :
                ptype \in {"agent_message", "assistant_message", "user_message", "task_started"},
                field \in {"message", "text"},
                text \in { <<"Salut">>, << >> } }
        ReadFile ==
            JObj(<< Member("name", JStr(<<"read_file">>)),
                    Member("args", JStr(<<"main.rs">>)) >>)
        \* item records: a message item whose text is given several times
        ItemRecords ==
            { JObj(<< Member("type", JStr(<<"item.completed">>)),
                      Member("item",
                             JObj(<< Member("type", JStr(<< itype >>)),
                                     Member("content", content),
                                     Member("text", JStr(<<"Bonjour">>)),
                                     Member("message", JStr(text)) >>)) >>) :
                itype \in {"agent_message", "user_message"},
                content \in { JStr(<<"Bonjour">>), JArr(<< JStr(<<"Salut">>) >>), JNull },
                text \in { <<"Bonjour">>, <<"Salut">> } }
        \* tool calls at the places the normalizer looks at
        ToolRecords ==
            { ListFiles,
              JObj(<< Member("type", JStr(<<"response_item">>)), Member("payload", ListFiles) >>),
              JObj(<< Member("type", JStr(<<"event_msg">>)), Member("payload", ReadFile) >>),
              JObj(<< Member("type", JStr(<<"item.started">>)), Member("item", ListFiles) >>),
              JObj(<< Member("type", JStr(<<"item.started">>)),
                      Member("item", JObj(<< Member("tool_call", ListFiles) >>)) >>),
              JObj(<< Member("type", JStr(<<"response_item">>)),
                      Member("payload", ListFiles), Member("tool_call", ListFiles) >>),
              JObj(<< Member("tool_calls", JArr(<< ListFiles, ReadFile, ListFiles >>)) >>),
              JObj(<< Member("type", JStr(<<"response.output_text.done">>)),
                      Member("text", JStr(<<"Bonjour">>)),
                      Member("item", JObj(<< Member("type", JStr(<<"agent_message">>)),
                                             Member("text", JStr(<<"Bonjour">>)) >>)) >>) }
    IN  LineRecords \cup MessageRecords \cup EventMsgRecords \cup ItemRecords \cup ToolRecords

InitNormalize ==
    /\ InitCommon
    /\ log_kept = FALSE
    /\ fs_codex = TRUE
    /\ fs_node = TRUE
    /\ fs_npm = TRUE
    /\ record \in LineRecords
    /\ call = NoCall

\* the call: items = extract_display_items(&record)
Normalize ==
    /\ ~normalized
    /\ display_items' = extract_display_items(record)
    /\ normalized' = TRUE
    /\ UNCHANGED <<record, nagent, call, result, returned, engine_vars, app_vars, env_vars,
                   user_vars, hist_vars>>

\* the next record is read
ReadRecord ==
    /\ normalized
    /\ record' \in Records
    /\ display_items' = << >>
    /\ normalized' = FALSE
    /\ UNCHANGED <<nagent, call, result, returned, engine_vars, app_vars, env_vars,
                   user_vars, hist_vars>>

NextNormalize == Normalize \/ ReadRecord

SpecNormalize == InitNormalize /\ [][NextNormalize]_vars

\* ------------------------------------------------------------ the engine
\* the spawn of handle h failed: the worker is past its send, no reader exists
SpawnFailed(h) == wpc[h] \in {"exiting", "done"} /\ rdr[h].out = "none"

ExitsOf(h) == { i \in 1..Len(sent[h]) : sent[h][i].kind = "Exit" }

ExitSent(h) == ExitsOf(h) # { }

OneExitLast ==
    \A h \in Handles :
        /\ Cardinality(ExitsOf(h)) <= 1
        /\ \A i \in ExitsOf(h) : i = Len(sent[h])

\* C1: once stream_subprocess has accepted a non-empty argv (the worker of the
\* new handle is at its start), the channel of the handle eventually carries
\* an Exit event; it never carries two, and no event follows the Exit, so
\* every Line comes before it -- whether the child started or the spawn failed
C1_ExactlyOneExitAfterLines ==
    /\ []OneExitLast
    /\ \A h \in 1..MaxEngineCalls : (wpc[h] = "start") ~> ExitSent(h)

C1_Witness ==
    \E h1, h2 \in Handles :
        /\ Len(sent[h1]) = 2
        /\ sent[h1][1].kind = "Line" /\ sent[h1][2].kind = "Exit"
        /\ sent[h2] = << [kind |-> "Exit", returncode |-> None] >>
        /\ SpawnFailed(h2)

\* C2: a call with an empty argv returns the empty-argument error (which
\* spawn_process logs) and creates no handle, no thread and no channel: the
\* engine state and the running set are unchanged, no event is sent
C2_EmptyArgvCreatesNothing ==
    [][ (ncalls' = ncalls + 1 /\ last_argv' = << >>)
        => /\ UNCHANGED <<engine_vars, sent, running>>
           /\ Len(log') = Len(log) + 1
           /\ contains(log'[Len(log')].text, "argv ne doit pas etre vide") ]_vars

C2_Witness ==
    /\ ncalls = 2 /\ last_argv = << >>
    /\ nspawned = 1
    /\ contains(log[Len(log)].text, "argv ne doit pas etre vide")

Held == { running[i].handle : i \in 1..Len(running) }
          \cup { active[i].handle : i \in 1..Len(active) }
          \cup { remaining[i].handle : i \in 1..Len(remaining) }

\* C3: when the OS refuses the spawn the caller still holds a handle, and the
\* stream of that handle is exactly one Exit event with no return code
C3_SpawnFailureStream ==
    \A h \in Handles :
        SpawnFailed(h) =>
            /\ h \in Held
            /\ Len(sent[h]) = 1
            /\ sent[h][1].kind = "Exit"
            /\ sent[h][1].returncode = None

C3_Witness ==
    \E h \in Handles : SpawnFailed(h) /\ chan[h] = << >> /\ main_pc = "join"

\* C4: the drain loop never waits for an event (a poll that finds the channel
\* empty can go on to the next handle at once), it joins a handle only once
\* that handle's Exit has been received, and every such join returns
C4_DrainNeverBlocks ==
    /\ [](main_pc = "poll" /\ active # << >> /\ chan[Head(active).handle] = << >>
            => ENABLED PollEmpty)
    /\ [](main_pc = "join"
            => /\ ExitSent(Head(active).handle)
               /\ \A i \in 1..Len(chan[Head(active).handle]) :
                     chan[Head(active).handle][i].kind # "Exit")
    /\ (main_pc = "join") ~> (main_pc = "poll")

C4_Witness ==
    /\ main_pc = "poll"
    /\ \E h \in Handles : wpc[h] = "joined"
    /\ active # << >> /\ chan[Head(active).handle] = << >>

\* ------------------------------------------------ capability negotiation
\* C5: both capability flags start unknown, and a flag that has become
\* unsupported is unsupported in every later state
C5_UnsupportedIsPermanent ==
    /\ codex_sandbox_supported = None
    /\ codex_approval_supported = None
    /\ [][ /\ codex_sandbox_supported = Some(FALSE)
                => codex_sandbox_supported' = Some(FALSE)
           /\ codex_approval_supported = Some(FALSE)
                => codex_approval_supported' = Some(FALSE) ]_vars

C5_Witness ==
    /\ codex_sandbox_supported = Some(FALSE)
    /\ codex_approval_supported = Some(FALSE)
    /\ nui = 1 /\ codex_sandbox_mode # "workspace-write"

ExtraArgs == codex_exec_extra_args(Cur)

SandboxKnownBad == codex_sandbox_supported = Some(FALSE)

ApprovalKnownBad == codex_approval_supported = Some(FALSE)

\* C6: the extra-argument list holds the pair --sandbox <mode> exactly when
\* the sandbox flag is not unsupported, the pair --ask-for-approval <policy>
\* exactly when the approval flag is not unsupported, the sandbox pair first,
\* and nothing else
C6_ExtraArgsShape ==
    /\ (\E i \in 1..(Len(ExtraArgs) - 1) :
            ExtraArgs[i] = Str("--sandbox") /\ ExtraArgs[i + 1] = Str(codex_sandbox_mode))
        <=> ~SandboxKnownBad
    /\ (\E i \in 1..(Len(ExtraArgs) - 1) :
            /\ ExtraArgs[i] = Str("--ask-for-approval")
            /\ ExtraArgs[i + 1] = Str(codex_approval_policy))
        <=> ~ApprovalKnownBad
    /\ Len(ExtraArgs) = (IF SandboxKnownBad THEN 0 ELSE 2)
                         + (IF ApprovalKnownBad THEN 0 ELSE 2)
    /\ (~SandboxKnownBad /\ ~ApprovalKnownBad) => ExtraArgs[1] = Str("--sandbox")

C6_Witness ==
    /\ SandboxKnownBad /\ ~ApprovalKnownBad
    /\ ExtraArgs = << Str("--ask-for-approval"), Str("on-request") >>

\* C7: once a line naming --sandbox with an unexpected-argument phrase has
\* been handled while the sandbox flag was in use, the extra-argument list
\* never holds --sandbox again, whatever the user does to the sandbox mode;
\* and the downgrade notice of a flag is logged at most once
C7_SandboxDroppedNoticeOnce ==
    /\ [flag |-> "sandbox", what |-> "argument"] \in observed
         => ~contains(ExtraArgs, Str("--sandbox"))
    /\ notices.sandbox <= 1
    /\ notices.approval <= 1

\* two concurrent invocations each printed the unexpected-argument line
C7_Witness ==
    /\ observed = { [flag |-> "sandbox", what |-> "argument"] }
    /\ retry_marked_prompts = { Prompt(1), Prompt(2) }
    /\ notices.sandbox = 1
    /\ ~contains(ExtraArgs, Str("--sandbox"))

\* C8: a line flips a flag to unsupported or sets its retry mark only if the
\* invocation that printed the line was launched with that flag
C8_OnlyLinesOfFlaggedInvocations ==
    [][ (main_pc = "poll" /\ active # << >>)
        => /\ (\/ codex_sandbox_supported' # codex_sandbox_supported
               \/ (codex_retry_without_sandbox' /\ ~codex_retry_without_sandbox))
              => contains(wargv[Head(active).handle], Str("--sandbox"))
           /\ (\/ codex_approval_supported' # codex_approval_supported
               \/ (codex_retry_without_approval' /\ ~codex_retry_without_approval))
              => contains(wargv[Head(active).handle], Str("--ask-for-approval")) ]_vars

\* two invocations run at once, one launched with --sandbox and one without;
\* a line of the one without has been handled and the approval flag was flipped
C8_Witness ==
    \E a, b \in Held :
        /\ contains(wargv[a], Str("exec")) /\ contains(wargv[a], Str("--sandbox"))
        /\ contains(wargv[b], Str("exec")) /\ ~contains(wargv[b], Str("--sandbox"))
        /\ nlines[b] = 1 /\ chan[b] = << >>
        /\ ~codex_retry_without_sandbox
        /\ codex_retry_without_approval

\* the main thread is about to handle a line of an agent invocation
PollingExecLine ==
    /\ main_pc = "poll"
    /\ active # << >>
    /\ Head(active).kind = "CodexExec"
    /\ chan[Head(active).handle] # << >>
    /\ Head(chan[Head(active).handle]).kind = "Line"

PolledLower == to_lowercase(trim(Head(chan[Head(active).handle]).text))

ValueLine(token) ==
    /\ contains(PolledLower, token)
    /\ contains(PolledLower, "invalid value") \/ contains(PolledLower, "possible values")

ArgumentLine(token) ==
    /\ contains(PolledLower, token)
    /\ \/ contains(PolledLower, "unexpected argument")
       \/ contains(PolledLower, "unknown argument")
       \/ contains(PolledLower, "unrecognized")

SandboxValueFlips ==
    (codex_exec_used_sandbox_flag /\ ValueLine("--sandbox"))
    => (codex_sandbox_supported' = Some(FALSE) /\ codex_retry_without_sandbox')

\* C9 as stated: for each of the two flags, a line handled while the flag is
\* in use that names the flag with "invalid value" or "possible values" flips
\* the flag to unsupported and sets its retry mark
C9_ValueLineFlipsEitherFlag ==
    [][ PollingExecLine
        => /\ SandboxValueFlips
           /\ (codex_exec_used_approval_flag /\ ValueLine("--ask-for-approval"))
              => (codex_approval_supported' = Some(FALSE)
                  /\ codex_retry_without_approval') ]_vars

\* C9 amended: such a line flips the flag and sets the retry mark for --sandbox
\* only; a line that names --ask-for-approval with a value phrase and no
\* argument-rejection phrase leaves the approval flag and its retry mark as
\* they were
C9_ValueLineFlipsSandboxOnly ==
    [][ PollingExecLine
        => /\ SandboxValueFlips
           /\ (ValueLine("--ask-for-approval") /\ ~ArgumentLine("--ask-for-approval"))
              => UNCHANGED <<codex_approval_supported, codex_retry_without_approval>> ]_vars

C9_Witness ==
    /\ [flag |-> "sandbox", what |-> "value"] \in observed
    /\ codex_sandbox_supported = Some(FALSE)
    /\ [flag |-> "approval", what |-> "value"] \in observed
    /\ [flag |-> "approval", what |-> "argument"] \notin observed
    /\ codex_approval_supported = None

\* C10 as stated: the invocation launched when a marked agent invocation ends
\* carries the prompt of every invocation whose line set a retry mark since
\* the marks were last cleared
C10_RetryCarriesMarkingPrompt ==
    [][ (/\ main_pc = "poll" /\ active # << >>
         /\ Head(active).kind = "CodexExec"
         /\ nspawned' = nspawned + 1)
        => \A p \in retry_marked_prompts : p = prompt_of(wargv'[nspawned']) ]_vars

\* ------------------------------------------------------ the retry protocol
\* the main thread is about to handle the Exit of an agent invocation
PollingExecExit ==
    /\ main_pc = "poll"
    /\ active # << >>
    /\ Head(active).kind = "CodexExec"
    /\ chan[Head(active).handle] # << >>
    /\ Head(chan[Head(active).handle]).kind = "Exit"

Marked == codex_retry_without_sandbox \/ codex_retry_without_approval

FlagToken == [sandbox |-> "--sandbox", approval |-> "--ask-for-approval"]

\* C12 as stated: the invocation launched when the Exit of an agent invocation
\* is handled omits every flag that a line of the exiting invocation rejected
C12_RetryOmitsRejectedFlags ==
    [][ (PollingExecExit /\ nspawned' = nspawned + 1)
        => \A f \in rejected[Head(active).handle] :
              ~contains(wargv'[nspawned'], Str(FlagToken[f])) ]_vars

\* ------------------------------------------------------ the pending prompt
\* the main thread is about to handle the Exit of a process of `kind`
PollingExitOf(kind) ==
    /\ main_pc = "poll"
    /\ active # << >>
    /\ Head(active).kind = kind
    /\ chan[Head(active).handle] # << >>
    /\ Head(chan[Head(active).handle]).kind = "Exit"

\* C13: handling the Exit of a status check leaves the pending slot empty and
\* launches at most one process, an agent invocation that carries the prompt
\* taken from the slot; handling the Exit of an install launches no agent
\* invocation; and over the whole run no prompt is launched through the
\* pending slot more than once
C13_PendingConsumedOnce ==
    /\ [][ PollingExitOf("CodexStatus")
            => /\ pending_codex_prompt' = None
               /\ nspawned' \in {nspawned, nspawned + 1}
               /\ nspawned' = nspawned + 1
                    => /\ running'[Len(running')].kind = "CodexExec"
                       /\ Some(prompt_of(wargv'[nspawned'])) = pending_codex_prompt ]_vars
    /\ [][ PollingExitOf("CodexInstall")
            => /\ nspawned' \in {nspawned, nspawned + 1}
               /\ nspawned' = nspawned + 1
                    => running'[Len(running')].kind = "CodexStatus" ]_vars
    /\ [](\A p \in Prompts : launches[p].slot <= 1)

\* the first prompt installed the agent, was stored again by the install's
\* exit handler and was launched by the exit of its status check; so was,
\* later, a second prompt
C13_Witness ==
    /\ codex_install_attempted
    /\ launches[Prompt(1)].slot = 1
    /\ launches[Prompt(2)].slot = 1
    /\ pending_codex_prompt = None
    /\ main_pc = "join" /\ Head(active).kind = "CodexStatus"

\* ------------------------------------------ the agent's output, line by line
MaxAgentLines == 3

MaxToggles == 2

\* an event_msg record with a message of the given payload type
MessageEvent(ptype, text) ==
    JObj(<< Member("type", JStr(<<"event_msg">>)),
            Member("payload", JObj(<< Member("type", JStr(<< ptype >>)),
                                      Member("message", JStr(text)) >>)) >>)

\* what an agent invocation writes: JSON records in their compact form, a
\* line that is not JSON, and a line of the CLI that rejects --sandbox
AgentLines ==
    { to_string(rec) \o <<"\n">> :
        rec \in { JObj(<< Member("type", JStr(<<"response.output_text.delta">>)),
                          Member("delta", JStr(<<"a">>)) >>),
                  JObj(<< Member("type", JStr(<<"response.output_text">>)),
                          Member("text", JStr(<<"b">>)) >>),
                  JObj(<< Member("type", JStr(<<"response.completed">>)) >>),
                  MessageEvent("user_message", <<"hello">>),
                  MessageEvent("agent_message", <<"hello">>),
                  MessageEvent("user_message", <<" ">>) } }
    \cup { <<"hello", "\r", "\n">>,
           <<"error:", "unexpected argument", "--sandbox", "found", "\n">> }

\* a reader of an agent invocation sends a line, once the lines sent before
\* it have been handled (the lines of one drain are handled one after the
\* other, as the lines of successive drains are)
ToAgentLine(h) ==
    /\ main_pc = "idle"
    /\ wpc[h] \in {"start", "wait"}
    /\ contains(wargv[h], Str("exec"))
    /\ chan[h] = << >>
    /\ nagent < MaxAgentLines
    /\ nagent' = nagent + 1
    /\ \E raw \in AgentLines :
         Send(h, LineEvent(trim_end_matches_nl(raw)))
    /\ nlines' = [nlines EXCEPT ![h] = @ + 1]
    /\ wpc' = [wpc EXCEPT ![h] = "wait"]
    /\ rdr' = [rdr EXCEPT ![h] = [out |-> "run", err |-> "run"]]
    /\ UNCHANGED <<wargv, wstatus, nspawned, app_vars, env_vars, record, display_items,
                   normalized, call, result, returned, user_vars, app_hist>>

\* one prompt is submitted
FirstPrompt == nprompts = 0 /\ RunCodex

\* the key that toggles the view (Action::ToggleCodexView)
ToggleViewKey ==
    /\ main_pc = "idle"
    /\ nui < MaxToggles
    /\ Commit(action_toggle_codex_view(Cur))
    /\ nui' = nui + 1
    /\ UNCHANGED <<env_vars, norm_vars, nprompts, ncalls, last_argv>>

InitAgent ==
    /\ InitCommon
    /\ record = JNull
    /\ call = NoCall
    /\ log_kept = TRUE
    /\ fs_codex = TRUE
    /\ fs_node = TRUE
    /\ fs_npm = TRUE

NextAgent ==
    \/ FirstPrompt
    \/ \E h \in Handles : ToAgentLine(h) \/ ToExit(h)
    \/ Drain
    \/ ToggleViewKey

SpecAgent == InitAgent /\ [][NextAgent]_vars

\* ---------------------------------------------------------------- C14
\* a sequence occurs in another one, as a run of consecutive elements
Occurs(part, text) ==
    \E i \in 0..(Len(text) - Len(part)) : SubSeq(text, i + 1, i + Len(part)) = part

\* the record of the line the main thread is about to handle, if it is one
PolledRecord == from_str(trim(Head(chan[Head(active).handle]).text))

PolledType ==
    IF IsSome(PolledRecord) THEN unwrap_or(as_str(get(Unwrap(PolledRecord), "type")), << >>)
    ELSE << >>

\* the text a delta event carries
PolledDelta ==
    unwrap_or(as_str(or_else(get(Unwrap(PolledRecord), "delta"),
                             get(Unwrap(PolledRecord), "text"))), << >>)

\* the three lines of a display entry in the Codex log
EntryLines(label, style, text) ==
    << [text |-> << label >>, style |-> style \o "-bold"],
       [text |-> text, style |-> style],
       [text |-> << >>, style |-> "default"] >>

\* the step empties the assistant buffer and adds its text to the Codex log
\* as one Assistant entry
BufferEmitted ==
    /\ codex_assistant_buffer' = << >>
    /\ codex_log' = codex_log \o EntryLines("Assistant", "green", codex_assistant_buffer)

\* the buffer holds the text of the entry logged last, which the log
\* suppresses when it is repeated
BufferRepeatsLastEntry ==
    last_codex_message = Some(<< "assistant", trim(codex_assistant_buffer) >>)

\* C14: in compact view (and with no retry mark set) a text-delta event is
\* appended to the assistant buffer and nothing is added to the Codex log; a
\* done/completed event that finds the buffer non-empty emits it as one
\* Assistant entry (unless it repeats the entry logged last) and empties it;
\* the exit of an agent process that finds the buffer non-empty does the
\* same; and after any agent process exit the buffer is empty.
C14_BufferFlushed ==
    /\ [][ (PollingExecLine /\ codex_compact_view /\ ~Marked /\ PolledType \in TextDeltaTypes)
              => /\ codex_assistant_buffer' = codex_assistant_buffer \o PolledDelta
                 /\ codex_log' = codex_log ]_vars
    /\ [][ (PollingExecLine /\ codex_compact_view /\ ~Marked /\ PolledType \in TextDoneTypes
              /\ codex_assistant_buffer # << >> /\ ~BufferRepeatsLastEntry)
              => BufferEmitted ]_vars
    /\ [][ (PollingExecExit /\ codex_assistant_buffer # << >> /\ ~BufferRepeatsLastEntry)
              => /\ codex_assistant_buffer' = << >>
                 /\ Occurs(EntryLines("Assistant", "green", codex_assistant_buffer),
                           SubSeq(codex_log', Len(codex_log) + 1, Len(codex_log'))) ]_vars
    /\ [][ PollingExecExit => codex_assistant_buffer' = << >> ]_vars

\* ---------------------------------------------------------------- C15
PolledText == trim(Head(chan[Head(active).handle]).text)

\* the line about to be handled matches no diagnostic rule: it has no
\* translation and rejects no flag
PolledIsPlain == translate_codex_line(PolledText) = None /\ rejects(PolledText) = { }

KindName(kind) ==
    CASE kind = "Assistant" -> "assistant" [] kind = "User" -> "user" [] OTHER -> "action"

LabelOf(name) ==
    CASE name = "assistant" -> "Assistant" [] name = "user" -> "Utilisateur" [] OTHER -> "Action"

ColourOf(name) ==
    CASE name = "assistant" -> "green" [] name = "user" -> "blue" [] OTHER -> "darkgray"

\* the display entries that handling the line in compact view asks the log
\* to add, as pairs of kind and text: the items of a record, or the line
\* itself when it is not JSON
PolledEntries ==
    IF IsSome(PolledRecord)
    THEN IF PolledType \in TextDeltaTypes \cup TextDoneTypes \cup { <<"error">>, <<"turn.failed">> }
         THEN << >>
         ELSE LET list == extract_display_items(Unwrap(PolledRecord))
              IN  [i \in 1..Len(list) |-> << KindName(list[i].kind), list[i].message >>]
    ELSE << << "action", PolledText >> >>

\* the main thread is about to handle, in compact view and with no retry
\* mark set, a line that asks for one display entry
LoggingEntry ==
    /\ PollingExecLine
    /\ codex_compact_view
    /\ ~Marked
    /\ PolledText # << >>
    /\ PolledIsPlain
    /\ Len(PolledEntries) = 1

PolledEntry == << PolledEntries[1][1], trim(PolledEntries[1][2]) >>

\* the display entry logged last, read from the Codex log: the kind of its
\* label line and the trimmed text of the line after it
EntryStyles == { "green-bold", "blue-bold", "darkgray-bold" }

LastLogged ==
    LET labels == { i \in 1..(Len(codex_log) - 1) : codex_log[i].style \in EntryStyles }
        last == CHOOSE i \in labels : \A j \in labels : j <= i
        name == CASE codex_log[last].style = "green-bold" -> "assistant"
                  [] codex_log[last].style = "blue-bold" -> "user"
                  [] OTHER -> "action"
    IN  IF labels = { } THEN None ELSE Some(<< name, trim(codex_log[last + 1].text) >>)

EntryAdded ==
    codex_log' = codex_log \o EntryLines(LabelOf(PolledEntry[1]), ColourOf(PolledEntry[1]),
                                         PolledEntries[1][2])

\* C15 as stated: logging a display entry whose (label, trimmed text) equals
\* that of the most recently logged display entry adds nothing to the Codex
\* log, and an entry that differs from it in label or in text is added.
C15_RepeatOfLastLoggedSuppressed ==
    [][ LoggingEntry
          => IF Some(PolledEntry) = LastLogged THEN codex_log' = codex_log ELSE EntryAdded ]_vars

\* C15, amended: logging a display entry whose (label, trimmed text) equals
\* the remembered fingerprint adds nothing to the Codex log, and so does an
\* entry whose trimmed text is empty; any other entry is added and becomes
\* the remembered fingerprint.  The fingerprint, when one is remembered, is
\* the display entry logged last; toggling the view forgets it.
C15_RepeatOfFingerprintSuppressed ==
    /\ [][ LoggingEntry
             => IF PolledEntry[2] = << >> \/ last_codex_message = Some(PolledEntry)
                THEN codex_log' = codex_log /\ last_codex_message' = last_codex_message
                ELSE EntryAdded /\ last_codex_message' = Some(PolledEntry) ]_vars
    /\ [][ (main_pc = "idle" /\ nui' = nui + 1) => last_codex_message' = None ]_vars
    /\ [](IsSome(last_codex_message) => last_codex_message = LastLogged)

\* the (User, "hello") entry was logged, it is the remembered fingerprint,
\* and the line about to be handled asks for it again
C15_Witness ==
    /\ LoggingEntry
    /\ PolledEntry = << "user", <<"hello">> >>
    /\ last_codex_message = Some(PolledEntry)
    /\ LastLogged = Some(PolledEntry)

\* ---------------------------------------------------------------- C19
\* the main thread is about to handle a non-empty line of an agent
\* invocation that is not JSON and matches no diagnostic rule
PollingPlainLine ==
    /\ PollingExecLine
    /\ PolledText # << >>
    /\ PolledRecord = None
    /\ PolledIsPlain

ActionEntryAdded == codex_log' = codex_log \o EntryLines("Action", "darkgray", PolledText)

RawLineAdded == codex_log' = Append(codex_log, [text |-> PolledText, style |-> "default"])

\* C19 as stated: a non-empty line that is not valid JSON and matches no
\* diagnostic rule is never dropped: in compact view it adds an Action entry
\* that carries the trimmed line, in verbose view a raw log line, whatever
\* was received before it.
C19_PlainLineNeverDropped ==
    [][ PollingPlainLine
          => IF codex_compact_view THEN ActionEntryAdded ELSE RawLineAdded ]_vars

\* C19, amended: such a line is discarded while a retry mark is set;
\* otherwise, in verbose view it adds a raw log line, and in compact view it
\* adds an Action entry that carries the trimmed line unless that entry is
\* the remembered fingerprint (the line repeats the entry logged last).
C19_PlainLinePassedThrough ==
    [][ PollingPlainLine
          => IF Marked THEN codex_log' = codex_log
             ELSE IF ~codex_compact_view THEN RawLineAdded
             ELSE IF last_codex_message = Some(<< "action", PolledText >>)
             THEN codex_log' = codex_log
             ELSE ActionEntryAdded ]_vars

\* the line "hello" was handled after a text delta and is the entry logged
\* last
C19_Witness ==
    /\ codex_assistant_buffer # << >>
    /\ LastLogged = Some(<< "action", <<"hello">> >>)
    /\ last_codex_message = LastLogged
    /\ main_pc = "idle"

\* ---------------------------------------------------------------- C16
\* the position of the first occurrence of an item in a list
FirstIndex(list, item) ==
    CHOOSE i \in 1..Len(list) : list[i] = item /\ \A j \in 1..(i - 1) : list[j] # item

\* C16: for every JSON record, the list returned by extract_display_items
\* has no two items with the same (kind, text); every item the rules produced
\* survives once, and the survivors stand in the order of their first
\* occurrences.
C16_NoDuplicateItems ==
    normalized =>
        LET produced == collected_items(record)
        IN  /\ \A i, j \in 1..Len(display_items) :
                  i # j => display_items[i] # display_items[j]
            /\ { display_items[i] : i \in 1..Len(display_items) }
                   = { produced[i] : i \in 1..Len(produced) }
            /\ \A i, j \in 1..Len(display_items) :
                  i < j => FirstIndex(produced, display_items[i])
                               < FirstIndex(produced, display_items[j])

\* a record normalized, whose rules produced one item twice, with another
\* item between the two occurrences
C16_Witness ==
    /\ normalized
    /\ Len(display_items) = 2
    /\ LET produced == collected_items(record)
       IN  /\ Len(produced) = 3
           /\ produced[1] = produced[3]
           /\ produced[1] # produced[2]

\* ---------------------------------------------------------------- C17
\* an assistant-message record: a response_item whose payload is a message
\* with role assistant, or an event_msg whose payload is an agent message
IsAssistantResponseItem(obj) ==
    /\ as_str(get(obj, "type")) = Some(<<"response_item">>)
    /\ as_str(get(unwrap_or(get(obj, "payload"), JNull), "type")) = Some(<<"message">>)
    /\ as_str(get(unwrap_or(get(obj, "payload"), JNull), "role")) = Some(<<"assistant">>)

IsAgentEventMsg(obj) ==
    /\ as_str(get(obj, "type")) = Some(<<"event_msg">>)
    /\ as_str(get(unwrap_or(get(obj, "payload"), JNull), "type"))
           \in { Some(<<"agent_message">>), Some(<<"assistant_message">>) }

\* the text fragment of one content part: the text of a text-bearing typed
\* part, or the part itself when it is a plain string
FragmentOfPart(part) ==
    IF part.t = "string" THEN << part.s >>
    ELSE IF /\ as_str(get(part, "type")) \in { Some(ty) : ty \in TextPartTypes }
            /\ IsSome(as_str(or_else(get(part, "text"), get(part, "content"))))
    THEN << Unwrap(as_str(or_else(get(part, "text"), get(part, "content")))) >>
    ELSE << >>

RECURSIVE FragmentsOfParts(_)
FragmentsOfParts(parts) ==
    IF parts = << >> THEN << >>
    ELSE FragmentOfPart(Head(parts)) \o FragmentsOfParts(Tail(parts))

NonEmptyText(text) == text # << >>

\* the non-empty text fragments of an assistant-message record: those of its
\* content, or the flat message (or text) field when the content has none
FragmentsOfRecord(obj) ==
    LET payload == unwrap_or(get(obj, "payload"), JNull)
        content == unwrap_or(get(payload, "content"), JNull)
        ofContent == IF content.t = "array" THEN FragmentsOfParts(content.a)
                     ELSE IF content.t = "string" THEN << content.s >>
                     ELSE << >>
        flat == IF IsAssistantResponseItem(obj) THEN as_str(get(payload, "message"))
                ELSE as_str(or_else(get(payload, "message"), get(payload, "text")))
    IN  IF IsAssistantResponseItem(obj) /\ SelectSeq(ofContent, NonEmptyText) # << >>
        THEN SelectSeq(ofContent, NonEmptyText)
        ELSE SelectSeq(flat, NonEmptyText)

\* C17: normalizing an assistant-message record yields one Assistant item
\* per non-empty text fragment, in order, and no other item (a fragment that
\* occurs twice is counted once, as the normalizer collapses identical
\* items); the two records of the examples yield [Assistant "Bonjour"] and
\* [Assistant "Salut"].
C17_OneItemPerFragment ==
    /\ (normalized /\ (IsAssistantResponseItem(record) \/ IsAgentEventMsg(record)))
           => display_items
                  = uniques(items_of_texts("Assistant", FragmentsOfRecord(record)), { })
    /\ (normalized /\ record = Unwrap(from_str(BonjourLine)))
           => display_items = << DisplayItem("Assistant", <<"Bonjour">>) >>
    /\ (normalized /\ record = Unwrap(from_str(SalutLine)))
           => display_items = << DisplayItem("Assistant", <<"Salut">>) >>

\* ---------------------------------------------------------------- C18
\* a record whose own fields are type "tool_call", a name and an arguments
\* object
IsTopLevelToolCall(obj) ==
    /\ as_str(get(obj, "type")) = Some(<<"tool_call">>)
    /\ IsSome(as_str(get(obj, "name")))
    /\ IsSome(get(obj, "arguments"))
    /\ is_object(Unwrap(get(obj, "arguments")))

\* C18: normalizing a tool-call record whose own top-level fields are type
\* "tool_call", a name and an arguments object yields exactly one Action
\* item, whose text contains the name and the compact JSON form of the
\* arguments.
C18_TopLevelToolCallIsOneAction ==
    (normalized /\ IsTopLevelToolCall(record))
        => /\ Len(display_items) = 1
           /\ display_items[1].kind = "Action"
           /\ Occurs(Unwrap(as_str(get(record, "name"))), display_items[1].message)
           /\ Occurs(to_string(Unwrap(get(record, "arguments"))), display_items[1].message)

\* ---------------------------------------------------------------- C20
\* the main thread is about to handle the terminal event of a command that
\* could not be spawned
PollingSpawnFailure ==
    /\ main_pc = "poll"
    /\ active # << >>
    /\ chan[Head(active).handle] # << >>
    /\ Head(chan[Head(active).handle]) = SpawnErrEvent

\* C20: a spawn failure of a launched command is converted to log output:
\* the step of the main thread that drains the terminal event of the handle
\* (it goes on to join the handle) adds at least one entry to the log of the
\* command.
C20_SpawnFailureLogged ==
    [][ (PollingSpawnFailure /\ main_pc' = "join")
          => IF Head(active).target = "Main" THEN Len(log') > Len(log)
             ELSE Len(codex_log') > Len(codex_log) ]_vars


\* ------------------------------------------------- failure events
MaxFailureLines == 2

\* {"type":"error","message":msg}
ErrorEvent(msg) ==
    JObj(<< Member("type", JStr(<<"error">>)), Member("message", JStr(msg)) >>)

\* {"type":"turn.failed","error":{field:msg}}
TurnFailedEvent(field, msg) ==
    JObj(<< Member("type", JStr(<<"turn.failed">>)),
            Member("error", JObj(<< Member(field, JStr(msg)) >>)) >>)

\* the messages of the failure events: a status after one of the two
\* phrases, a bare status, a bare number before the status of a phrase, a
\* message that translate_codex_line translates, a message with no status
FailureMessages ==
    { <<"unexpected status", " ", "401", " ", "Unauthorized">>,
      <<"last status:", " ", "403", " ", "Forbidden">>,
      <<"HTTP", " ", "407">>,
      <<"HTTP", " ", "429">>,
      <<"port", " ", "600", " ", "unexpected status", " ", "500">>,
      <<"last status:", " ", "599">>,
      <<"HTTP", " ", "418">>,
      <<"HTTP", " ", "600">>,
      <<"Error:", " ", "unexpected status", " ", "503">>,
      <<"aucun code ici">> }

\* what a failing agent invocation writes: failure events in their compact
\* form, and a line of the CLI that rejects --sandbox
FailureLines ==
    { to_string(ErrorEvent(msg)) \o <<"\n">> : msg \in FailureMessages }
    \cup { to_string(TurnFailedEvent("message", msg)) \o <<"\n">> : msg \in FailureMessages }
    \cup { to_string(TurnFailedEvent("text", <<"HTTP", " ", "429">>)) \o <<"\n">>,
           <<"error:", "unexpected argument", "--sandbox", "found", "\n">> }

\* a reader of an agent invocation sends a line of a failure, once the lines
\* sent before it have been handled
ToFailureLine(h) ==
    /\ main_pc = "idle"
    /\ wpc[h] \in {"start", "wait"}
    /\ contains(wargv[h], Str("exec"))
    /\ chan[h] = << >>
    /\ nagent < MaxFailureLines
    /\ nagent' = nagent + 1
    /\ \E raw \in FailureLines :
         Send(h, LineEvent(trim_end_matches_nl(raw)))
    /\ nlines' = [nlines EXCEPT ![h] = @ + 1]
    /\ wpc' = [wpc EXCEPT ![h] = "wait"]
    /\ rdr' = [rdr EXCEPT ![h] = [out |-> "run", err |-> "run"]]
    /\ UNCHANGED <<wargv, wstatus, nspawned, app_vars, env_vars, record, display_items,
                   normalized, call, result, returned, user_vars, app_hist>>

NextFailure ==
    \/ FirstPrompt
    \/ \E h \in Handles : ToFailureLine(h) \/ ToExit(h)
    \/ Drain
    \/ ToggleViewKey

SpecFailure == InitAgent /\ [][NextFailure]_vars

\* ---------------------------------------------------------------- C21
\* the main thread is about to handle a line of an agent invocation that is a
\* structured error event or a turn-failed event
PollingFailure ==
    /\ PollingExecLine
    /\ IsSome(PolledRecord)
    /\ PolledType \in { <<"error">>, <<"turn.failed">> }

\* the message the event carries
FailureMessage ==
    LET rec == Unwrap(PolledRecord)
        err == get(rec, "error")
    IN  IF PolledType = <<"error">> THEN unwrap_or(as_str(get(rec, "message")), << >>)
        ELSE IF IsSome(err)
        THEN unwrap_or(as_str(or_else(get(Unwrap(err), "message"), get(Unwrap(err), "text"))),
                       << >>)
        ELSE << >>

FailureStatus == extract_status_code(FailureMessage)

\* the codes that have a hint
Classified(status) == status \in {401, 403, 407, 429} \cup 500..599

\* the hint of a classified code
FixedHint(status) ==
    CASE status = 401 -> <<"401 = authentification invalide -> Ctrl+K (login) ou codex logout + login ChatGPT.">>
      [] status = 403 -> <<"403 = acces interdit -> verifie login ChatGPT (pas API key) / droits / reseau.">>
      [] status = 407 -> <<"407 = proxy auth required -> configure HTTP_PROXY/HTTPS_PROXY.">>
      [] status = 429 -> <<"429 = rate limit -> reessaie plus tard / ralentis.">>
      [] OTHER -> <<"5xx = erreur serveur -> reessaie, possible incident cote OpenAI.">>

\* the failure notice that names the code
StatusNotice ==
    << IF PolledType = <<"error">> THEN "Erreur Codex HTTP" ELSE "Tache echouee HTTP",
       status_text(Unwrap(FailureStatus)), "." >>

ActionEntry(text) == EntryLines("Action", "darkgray", text)

\* the notice and, for a classified code, the hint, as Action entries
NoticeThenHint ==
    ActionEntry(StatusNotice)
        \o (IF Classified(Unwrap(FailureStatus))
            THEN ActionEntry(FixedHint(Unwrap(FailureStatus))) ELSE << >>)

StatusFailureHandled ==
    /\ PollingFailure
    /\ codex_compact_view
    /\ ~Marked
    /\ PolledIsPlain
    /\ translate_codex_line(FailureMessage) = None
    /\ IsSome(FailureStatus)

RetryNotices ==
    { <<"Erreur Codex: une erreur est survenue. Consulte le journal ou relance.">>,
      FixedHint(429), FixedHint(503) }

\* the lines the step adds to the Codex log
AddedLines == SubSeq(codex_log', Len(codex_log) + 1, Len(codex_log'))

PlainNotice ==
    IF PolledType = <<"error">>
    THEN <<"Erreur Codex: une erreur est survenue. Consulte le journal ou relance.">>
    ELSE <<"Tache echouee: une erreur est survenue.">>

MaxTextLines == 3

Rep(c, n) == [i \in 1..n |-> c]

Fence == Rep("U+0060", 3)

\* the lines of the texts: a fence, an indented fence with a language, a
\* short and a long line of code with two spaces in a row, a word of twenty
\* chars, a sentence, a word of six two-byte chars, a line of white space
LinePool ==
    { Fence,
      << " " >> \o Fence \o << "p", "y" >>,
      << "x", " ", " ", "y" >>,
      Rep("x", 6) \o << " ", " " >> \o Rep("y", 6),
      Rep("A", 20),
      << "a", "a", "a", " ", "b", "b", "b", " ", "c", "c", "c", " ", "d", "d", "d" >>,
      Rep("U+00E9", 6),
      << " " >> }

\* the lines joined by "\n"
RECURSIVE join_nl(_)
join_nl(raws) ==
    IF raws = << >> THEN << >>
    ELSE IF Len(raws) = 1 THEN raws[1]
    ELSE raws[1] \o << "\n" >> \o join_nl(Tail(raws))

Widths == {0, 10, 12, 18}

WrapCalls ==
    { [fn |-> "wrap_text", text |-> join_nl(raws), width |-> w] :
        raws \in UNION { [1..n -> LinePool] : n \in 1..MaxTextLines }, w \in Widths }

InitWrap ==
    /\ InitCommon
    /\ record = JNull
    /\ log_kept = FALSE
    /\ fs_codex = TRUE
    /\ fs_node = TRUE
    /\ fs_npm = TRUE
    /\ call \in { c \in WrapCalls : c.text \in LinePool }

\* the call: lines = wrap_text(text, width)
CallWrapText ==
    /\ ~returned
    /\ result' = wrap_text(call.text, call.width)
    /\ returned' = TRUE
    /\ UNCHANGED <<call, record, display_items, normalized, nagent, engine_vars, app_vars,
                   env_vars, user_vars, hist_vars>>

\* the next call
NextWrapCall ==
    /\ returned
    /\ call' \in WrapCalls
    /\ result' = << >>
    /\ returned' = FALSE
    /\ UNCHANGED <<record, display_items, normalized, nagent, engine_vars, app_vars,
                   env_vars, user_vars, hist_vars>>

NextWrap == CallWrapText \/ NextWrapCall

SpecWrap == InitWrap /\ [][NextWrap]_vars

\* ---------------------------------------------------------------- C23
\* the width wrap_text works with
WrapWidth == IF call.width > 10 THEN call.width ELSE 10

\* a later line closes the block
ClosedLater(raws) == \E i \in 1..Len(raws) : opens_fence(raws[i])

\* the consecutive runs of width chars of a line
RunsOf(line) ==
    [k \in 1..((Len(line) + WrapWidth - 1) \div WrapWidth) |->
        SubSeq(line, (k - 1) * WrapWidth + 1,
               IF k * WrapWidth < Len(line) THEN k * WrapWidth ELSE Len(line))]

WholeOrRuns(line) == IF str_len(line) <= WrapWidth THEN << line >> ELSE RunsOf(line)

\* the lines of the text, each line that lies between two fence lines kept
\* whole, or cut into runs when it is long and cut is set, and every other
\* line replaced by what wrap_text makes of it
RECURSIVE WithFenced(_, _, _)
WithFenced(raws, in_code, cut) ==
    IF raws = << >> THEN << >>
    ELSE IF opens_fence(Head(raws))
    THEN << Head(raws) >> \o WithFenced(Tail(raws), ~in_code, cut)
    ELSE IF in_code /\ ClosedLater(Tail(raws))
    THEN (IF cut THEN WholeOrRuns(Head(raws)) ELSE << Head(raws) >>)
         \o WithFenced(Tail(raws), in_code, cut)
    ELSE wrap_raws(<< Head(raws) >>, WrapWidth, in_code)
         \o WithFenced(Tail(raws), in_code, cut)

RECURSIVE Concat(_)
Concat(parts) == IF parts = << >> THEN << >> ELSE Head(parts) \o Concat(Tail(parts))

NoFence(text) == \A i \in 1..Len(str_lines(text)) : ~opens_fence(str_lines(text)[i])

\* the text is one word: it has chars, none of them white space
OneWord(text) == text # << >> /\ \A i \in 1..Len(text) : ~IsSpace(text[i])

\* C24: for a text without fence markers and a width of at least 10, every
\* line wrap_text returns has at most width chars; a text that is one word of
\* more than width chars comes out as consecutive slices of at most width
\* chars whose concatenation is the word; twenty A at width 18 give a line of
\* 18 and a line of 2.
C24_LinesFitWidth ==
    (returned /\ call.fn = "wrap_text" /\ NoFence(call.text) /\ call.width >= 10)
        => /\ \A i \in 1..Len(result) : Len(result[i]) <= call.width
           /\ (OneWord(call.text) /\ Len(call.text) > call.width)
                 => /\ Concat(result) = call.text
                    /\ Len(result) > 1
           /\ (call.text = Rep("A", 20) /\ call.width = 18)
                 => result = << Rep("A", 18), Rep("A", 2) >>

\* twenty A wrapped to 18
C24_Witness ==
    /\ returned
    /\ call = [fn |-> "wrap_text", text |-> Rep("A", 20), width |-> 18]
    /\ result = << Rep("A", 18), Rep("A", 2) >>

\* ============================================================ path lookup
\* codex/mod.rs: find_in_path and what it reads.  A path is a text whose
\* tokens are component names, separators, a drive prefix and extensions:
\* /a/tool is << "/", "a", "/", "tool" >>, C:\a\tool.cmd is
\* << "C:", "\\", "a", "\\", "tool", ".cmd" >>.  A relative path names a file
\* of the current directory.  The build target and the is_windows argument
\* agree, as in every call outside the tests (is_windows() is cfg!(windows)).

\* std::path::MAIN_SEPARATOR
MAIN_SEPARATOR(is_windows) == IF is_windows THEN "\\" ELSE "/"

\* the separator of the entries of PATH
PATH_SEPARATOR(is_windows) == IF is_windows THEN ";" ELSE ":"

ExtTokens ==
    {".COM", ".EXE", ".BAT", ".CMD", ".PS1", ".com", ".exe", ".bat", ".cmd", ".ps1",
     ".js", ".json"}

\* str::split(sep): the pieces of a text, at least one
RECURSIVE split_on(_, _, _)
split_on(text, sep, cur) ==
    IF text = << >> THEN << cur >>
    ELSE IF Head(text) = sep THEN << cur >> \o split_on(Tail(text), sep, << >>)
    ELSE split_on(Tail(text), sep, Append(cur, Head(text)))

\* env::split_paths: an empty value has one entry, the empty path
split_paths(raw, is_windows) == split_on(raw, PATH_SEPARATOR(is_windows), << >>)

\* Path::is_absolute
is_absolute(path, is_windows) ==
    IF is_windows
    THEN Len(path) >= 2 /\ path[1] = "C:" /\ path[2] \in {"\\", "/"}
    ELSE starts_with(path, "/")

\* Path::extension: the extension token of the last component
extension(path, is_windows) ==
    IF /\ Len(path) >= 2
       /\ path[Len(path)] \in ExtTokens
       /\ path[Len(path) - 1] \notin {"/", "C:"}
       /\ ~(is_windows /\ path[Len(path) - 1] = "\\")
    THEN Some(path[Len(path)])
    ELSE None

\* Path::join of a directory and a relative name
join(dir, name, is_windows) ==
    IF dir = << >> THEN name
    ELSE IF dir[Len(dir)] = MAIN_SEPARATOR(is_windows) \/ (is_windows /\ dir[Len(dir)] = "/")
    THEN dir \o name
    ELSE dir \o << MAIN_SEPARATOR(is_windows) >> \o name

\* the prefix of a verbatim path, \\?\
VerbatimPrefix == "\\\\?\\"

path_for_cmd(path, is_windows) ==
    IF ~is_windows THEN path
    ELSE IF Len(path) >= 3 /\ path[1] = VerbatimPrefix /\ path[2] = "UNC" /\ path[3] = "\\"
    THEN << "\\\\" >> \o SubSeq(path, 4, Len(path))
    ELSE IF starts_with(path, VerbatimPrefix) THEN Tail(path)
    ELSE path

\* Path::exists in the file system W.files: on Windows names differing in
\* case, or in the verbatim prefix, name the same file
exists(W, path, is_windows) ==
    IF is_windows
    THEN \E f \in W.files :
             to_lowercase(path_for_cmd(f, TRUE)) = to_lowercase(path_for_cmd(path, TRUE))
    ELSE path \in W.files

\* env::var("PATHEXT").unwrap_or_else(..).split(';').filter(non-empty), or
\* the one empty extension
extensions(W, candidate, is_windows) ==
    IF is_windows /\ extension(candidate, is_windows) = None
    THEN LET pathext == IF IsSome(W.PATHEXT) THEN Unwrap(W.PATHEXT)
                        ELSE << ".COM", ";", ".EXE", ";", ".BAT", ";", ".CMD", ";", ".PS1" >>
             exts == SelectSeq(split_on(pathext, ";", << >>), LAMBDA ext : ext # << >>)
         IN  IF exts = << >> THEN << << >> >> ELSE exts
    ELSE << << >> >>

\* for ext in &extensions: the first candidate of one directory that exists
RECURSIVE scan_extensions(_, _, _, _, _)
scan_extensions(W, dir, cmd, exts, is_windows) ==
    IF exts = << >> THEN None
    ELSE IF exists(W, join(dir, cmd \o Head(exts), is_windows), is_windows)
    THEN Some(join(dir, cmd \o Head(exts), is_windows))
    ELSE scan_extensions(W, dir, cmd, Tail(exts), is_windows)

\* for dir in path_iter, taking every directory's first candidate whether
\* or not an earlier directory has one: the last match wins
RECURSIVE scan_path_last(_, _, _, _, _)
scan_path_last(W, dirs, cmd, exts, is_windows) ==
    IF dirs = << >> THEN None
    ELSE IF IsSome(scan_path_last(W, Tail(dirs), cmd, exts, is_windows))
    THEN scan_path_last(W, Tail(dirs), cmd, exts, is_windows)
    ELSE scan_extensions(W, Head(dirs), cmd, exts, is_windows)

\* for dir in path_iter
RECURSIVE scan_path(_, _, _, _, _)
scan_path(W, dirs, cmd, exts, is_windows) ==
    IF dirs = << >> THEN None
    ELSE IF IsSome(scan_extensions(W, Head(dirs), cmd, exts, is_windows))
    THEN scan_extensions(W, Head(dirs), cmd, exts, is_windows)
    ELSE scan_path(W, Tail(dirs), cmd, exts, is_windows)

has_separator(cmd, is_windows) ==
    contains(cmd, MAIN_SEPARATOR(is_windows)) \/ (is_windows /\ contains(cmd, "/"))

\* find_in_path(cmd, path, is_windows); W is the file system and the
\* process environment the function reads
find_in_path(W, cmd, path, is_windows) ==
    IF trim(cmd) = << >> THEN None
    ELSE IF is_absolute(trim(cmd), is_windows) \/ has_separator(trim(cmd), is_windows)
    THEN IF exists(W, trim(cmd), is_windows) THEN Some(trim(cmd)) ELSE None
    ELSE scan_path(W, split_paths(IF IsSome(path) THEN Unwrap(path) ELSE << >>, is_windows),
                   trim(cmd), extensions(W, trim(cmd), is_windows), is_windows)

\* ------------------------------------------------- calls of pure functions
\* the state a function of codex/mod.rs is called in: nothing is running
InitCalls ==
    /\ InitCommon
    /\ record = JNull
    /\ log_kept = FALSE
    /\ fs_codex = TRUE
    /\ fs_node = TRUE
    /\ fs_npm = TRUE

\* a call returns: only result and returned change
Returns(value) ==
    /\ ~returned
    /\ result' = value
    /\ returned' = TRUE
    /\ UNCHANGED <<call, record, display_items, normalized, nagent, engine_vars, app_vars,
                   env_vars, user_vars, hist_vars>>

\* the caller makes the call c next
Calls(c) ==
    /\ returned
    /\ call' = c
    /\ result' = << >>
    /\ returned' = FALSE
    /\ UNCHANGED <<record, display_items, normalized, nagent, engine_vars, app_vars,
                   env_vars, user_vars, hist_vars>>

\* ------------------------------------------------- find_in_path: the calls
UnixDirA == << "/", "a" >>
UnixDirB == << "/", "b" >>
WinDirA == << "C:", "\\", "a" >>
WinDirB == << "C:", "\\", "b" >>

\* the files a file system of the model may hold
UnixFiles ==
    { UnixDirA \o << "/", "tool" >>, UnixDirB \o << "/", "tool" >>, << "tool" >>,
      << "bin", "/", "tool" >> }

WinFiles ==
    { WinDirA \o << "\\", "tool", ".cmd" >>, WinDirA \o << "\\", "tool", ".exe" >>,
      WinDirA \o << "\\", "tool" >>, WinDirB \o << "\\", "tool", ".EXE" >>,
      WinDirB \o << "\\", "tool", ".ps1" >> }

UnixPaths ==
    { None, Some(<< >>), Some(UnixDirA \o << ":" >> \o UnixDirB),
      Some(UnixDirB \o << ":" >> \o UnixDirA), Some(UnixDirB),
      Some(<< ":" >> \o UnixDirA) }

WinPaths ==
    { None, Some(WinDirA \o << ";" >> \o WinDirB), Some(WinDirB \o << ";" >> \o WinDirA),
      Some(WinDirB) }

UnixNames ==
    { << "tool" >>, << " ", "tool", " " >>, << " " >>, UnixDirB \o << "/", "tool" >>,
      << "bin", "/", "tool" >>, << "bin", "\\", "tool" >> }

WinNames ==
    { << "tool" >>, << "tool", ".cmd" >>, WinDirA \o << "\\", "tool" >>,
      << "a", "/", "tool" >> }

\* values of PATHEXT in the process environment
PathExts == { None, Some(<< ".CMD", ";", ";", ".EXE" >>), Some(<< >>) }

LookupCalls ==
    { [fn |-> "find_in_path", W |-> [files |-> fl, PATHEXT |-> None], cmd |-> n,
       path |-> p, is_windows |-> FALSE] :
        fl \in SUBSET UnixFiles, n \in UnixNames, p \in UnixPaths }
    \cup
    { [fn |-> "find_in_path", W |-> [files |-> fl, PATHEXT |-> pe], cmd |-> n,
       path |-> p, is_windows |-> TRUE] :
        fl \in SUBSET WinFiles, pe \in PathExts, n \in WinNames, p \in WinPaths }

InitLookup ==
    /\ InitCalls
    /\ call \in { c \in LookupCalls : c.W.files = { } /\ c.cmd = << "tool" >> }

\* the call: found = find_in_path(cmd, path, is_windows)
CallFindInPath ==
    /\ call.fn = "find_in_path"
    /\ Returns(find_in_path(call.W, call.cmd, call.path, call.is_windows))

\* the next call: other arguments in the same file system, or the same
\* arguments after the file system has changed
NextLookupCall ==
    \E c \in LookupCalls :
        /\ c.is_windows = call.is_windows
        /\ c.W = call.W \/ (c.cmd = call.cmd /\ c.path = call.path)
        /\ Calls(c)

NextLookup == CallFindInPath \/ NextLookupCall

SpecLookup == InitLookup /\ [][NextLookup]_vars

\* ---------------------------------------------------------------- C25
\* the name looked up
LookupName == trim(call.cmd)

\* the name is a bare command name
BareName ==
    /\ LookupName # << >>
    /\ ~has_separator(LookupName, call.is_windows)
    /\ ~is_absolute(LookupName, call.is_windows)

\* the directories of the search path in its order; an empty entry (an
\* empty or absent search path has one) is the current directory
SearchDirs ==
    split_paths(IF IsSome(call.path) THEN Unwrap(call.path) ELSE << >>, call.is_windows)

\* the names the file may have in a directory: the name, or on Windows the
\* name with each extension of the list when it has none
FileNames ==
    { LookupName \o extensions(call.W, LookupName, call.is_windows)[k] :
        k \in 1..Len(extensions(call.W, LookupName, call.is_windows)) }

CandidatesIn(dir) == { join(dir, n, call.is_windows) : n \in FileNames }

ContainsFile(dir) == \E p \in CandidatesIn(dir) : exists(call.W, p, call.is_windows)

\* C25: looking up a bare command name returns a candidate that exists in
\* the first directory, in search-path order, that contains the file, and
\* none when no directory contains it; a name with a separator or an
\* absolute name is found exactly when it exists itself, and is returned
\* as it is.
C25_FirstDirectoryWins ==
    (returned /\ call.fn = "find_in_path")
        => /\ BareName
                => IF \E i \in 1..Len(SearchDirs) : ContainsFile(SearchDirs[i])
                   THEN /\ IsSome(result)
                        /\ \E i \in 1..Len(SearchDirs) :
                              /\ \A j \in 1..(i - 1) : ~ContainsFile(SearchDirs[j])
                              /\ Unwrap(result) \in CandidatesIn(SearchDirs[i])
                              /\ exists(call.W, Unwrap(result), call.is_windows)
                   ELSE result = None
           /\ (LookupName # << >> /\ ~BareName)
                => result = IF exists(call.W, LookupName, call.is_windows)
                            THEN Some(LookupName) ELSE None

\* "tool" on /a:/b when both directories hold it
C25_Witness ==
    /\ returned
    /\ call.fn = "find_in_path"
    /\ call.cmd = << "tool" >>
    /\ call.path = Some(UnixDirA \o << ":" >> \o UnixDirB)
    /\ ~call.is_windows
    /\ { UnixDirA \o << "/", "tool" >>, UnixDirB \o << "/", "tool" >> } \subseteq call.W.files
    /\ result = Some(UnixDirA \o << "/", "tool" >>)

\* ============================================================= agent argv
\* codex/mod.rs: the base argv of the agent and what it reads.  An
\* environment map is a function from variable names to texts; W is the
\* file system (its files, the text of the package manifest) and the
\* process environment (PATH, PATHEXT, COMSPEC).

\* str::eq_ignore_ascii_case for the names of the model
UpperKey(k) ==
    CASE k \in {"Path", "path"} -> "PATH"
      [] k = "usbide_codex_allow_api_key" -> "USBIDE_CODEX_ALLOW_API_KEY"
      [] k \in {"ComSpec", "comspec"} -> "COMSPEC"
      [] OTHER -> k

\* a map of the model holds a variable under one spelling only, so that the
\* first entry env.iter() finds is the only one
env_value_from_map(env_map, key, is_windows) ==
    IF ~IsSome(env_map) THEN None
    ELSE IF key \in DOMAIN Unwrap(env_map) THEN Some(Unwrap(env_map)[key])
    ELSE IF is_windows /\ \E k \in DOMAIN Unwrap(env_map) : UpperKey(k) = key
    THEN Some(Unwrap(env_map)[CHOOSE k \in DOMAIN Unwrap(env_map) : UpperKey(k) = key])
    ELSE None

env_path_from_map(env_map, is_windows) == env_value_from_map(env_map, "PATH", is_windows)

\* dir.join(a).join(b)...
RECURSIVE joins(_, _, _)
joins(dir, names, is_windows) ==
    IF names = << >> THEN dir
    ELSE joins(join(dir, Head(names), is_windows), Tail(names), is_windows)

codex_install_prefix(root_dir, is_windows) ==
    joins(root_dir, << << ".usbide" >>, << "codex" >> >>, is_windows)

codex_bin_dir(prefix, is_windows) ==
    joins(prefix, << << "node_modules" >>, << ".bin" >> >>, is_windows)

node_tools_dir(root_dir, is_windows) ==
    joins(root_dir, << << "tools" >>, << "node" >> >>, is_windows)

\* pkg_json.parent()
codex_package_dir(prefix, is_windows) ==
    joins(prefix, << << "node_modules" >>, << "@openai" >>, << "codex" >> >>, is_windows)

codex_package_json(prefix, is_windows) ==
    join(codex_package_dir(prefix, is_windows), << "package", ".json" >>, is_windows)

\* for candidate in candidates: the first that exists
RECURSIVE first_existing(_, _, _)
first_existing(W, candidates, is_windows) ==
    IF candidates = << >> THEN None
    ELSE IF exists(W, Head(candidates), is_windows) THEN Some(Head(candidates))
    ELSE first_existing(W, Tail(candidates), is_windows)

\* env_map PATH, or the PATH of the process
search_path_of(W, env_map, is_windows) ==
    or_else(env_path_from_map(env_map, is_windows), W.PATH)

\* the candidates under the root, then the one found on the search path
\* (an Option is a sequence of at most one element)
node_executable_with_os(W, root_dir, env_map, is_windows) ==
    first_existing(W,
        (IF is_windows
         THEN << join(node_tools_dir(root_dir, is_windows), << "node", ".exe" >>, is_windows) >>
         ELSE << joins(node_tools_dir(root_dir, is_windows), << << "bin" >>, << "node" >> >>,
                       is_windows),
                 join(node_tools_dir(root_dir, is_windows), << "node" >>, is_windows) >>)
        \o (IF IsSome(search_path_of(W, env_map, is_windows))
            THEN find_in_path(W, << "node" >>, search_path_of(W, env_map, is_windows),
                              is_windows)
            ELSE None),
        is_windows)

\* obj.values(): the first value that is a string, in the order of the keys
RECURSIVE first_str(_)
first_str(members) ==
    IF members = << >> THEN None
    ELSE IF Head(members).v.t = "string" THEN Some(Head(members).v.s)
    ELSE first_str(Tail(members))

\* rel: the bin field as a string, its member "codex", or its first string
bin_rel(bin_field) ==
    IF ~IsSome(bin_field) THEN None
    ELSE IF IsSome(as_str(bin_field)) THEN as_str(bin_field)
    ELSE IF is_object(Unwrap(bin_field))
    THEN or_else(as_str(get(Unwrap(bin_field), "codex")),
                 first_str(sort_members(Unwrap(bin_field).m)))
    ELSE None

\* entry = pkg_json.parent()?.join(rel), if it exists
entry_of(W, dir, rel, is_windows) ==
    IF IsSome(rel) /\ exists(W, join(dir, Unwrap(rel), is_windows), is_windows)
    THEN Some(join(dir, Unwrap(rel), is_windows))
    ELSE None

codex_entrypoint_js(W, prefix, is_windows) ==
    IF ~exists(W, codex_package_json(prefix, is_windows), is_windows) THEN None
    ELSE IF ~IsSome(from_str(W.manifest)) THEN None
    ELSE entry_of(W, codex_package_dir(prefix, is_windows),
                  bin_rel(get(Unwrap(from_str(W.manifest)), "bin")), is_windows)

\* the argv of an agent found on the search path of Windows, run directly
shim_argv_direct(W, env_map, resolved, is_windows) ==
    << path_for_cmd(resolved, is_windows) >>

\* the argv of an agent found on the search path of Windows
shim_argv(W, env_map, resolved, is_windows) ==
    IF IsSome(extension(resolved, is_windows))
       /\ LowerTok(Unwrap(extension(resolved, is_windows))) \in {".cmd", ".bat"}
    THEN << unwrap_or(or_else(env_value_from_map(env_map, "COMSPEC", is_windows), W.COMSPEC),
                      Str("cmd.exe")),
            Str("/d"), Str("/s"), Str("/c"), path_for_cmd(resolved, is_windows) >>
    ELSE IF IsSome(extension(resolved, is_windows))
            /\ LowerTok(Unwrap(extension(resolved, is_windows))) = ".ps1"
    THEN << unwrap_or(find_in_path(W, << "powershell" >>,
                                   search_path_of(W, env_map, is_windows), is_windows),
                      << "powershell" >>),
            Str("-NoProfile"), Str("-ExecutionPolicy"), Str("Bypass"), Str("-File"),
            path_for_cmd(resolved, is_windows) >>
    ELSE << path_for_cmd(resolved, is_windows) >>

\* the second half of codex_base_argv_with_os: no runtime and entry script
path_argv(W, env_map, is_windows) ==
    IF is_windows
       /\ IsSome(find_in_path(W, << "codex" >>, search_path_of(W, env_map, is_windows),
                              is_windows))
    THEN shim_argv(W, env_map,
                   Unwrap(find_in_path(W, << "codex" >>,
                                       search_path_of(W, env_map, is_windows), is_windows)),
                   is_windows)
    ELSE << Str("codex") >>

\* the base argv that never looks under the root
codex_base_argv_unbundled(W, root_dir, env_map, is_windows) ==
    path_argv(W, env_map, is_windows)

codex_base_argv_with_os(W, root_dir, env_map, is_windows) ==
    IF /\ IsSome(root_dir)
       /\ IsSome(node_executable_with_os(W, Unwrap(root_dir), env_map, is_windows))
       /\ IsSome(codex_entrypoint_js(W, codex_install_prefix(Unwrap(root_dir), is_windows),
                                     is_windows))
    THEN << path_for_cmd(Unwrap(node_executable_with_os(W, Unwrap(root_dir), env_map,
                                                        is_windows)), is_windows),
            path_for_cmd(Unwrap(codex_entrypoint_js(W,
                                    codex_install_prefix(Unwrap(root_dir), is_windows),
                                    is_windows)), is_windows) >>
    ELSE path_argv(W, env_map, is_windows)

\* ------------------------------------------------------ agent argv: calls
UnixRoot == << "/", "usb" >>
WinRoot == << "C:", "\\", "usb" >>

\* the text of package.json: the named form, the string form, the form
\* whose first string is taken, no bin field, no JSON
ManifestNamed ==
    << "{", "\"", "bin", "\"", ":", "{", "\"", "codex", "\"", ":",
       "\"", "bin", "/", "codex", ".js", "\"", "}", "}" >>

ManifestString == << "{", "\"", "bin", "\"", ":", "\"", "cli", ".js", "\"", "}" >>

ManifestFirst ==
    << "{", "\"", "bin", "\"", ":", "{", "\"", "args", "\"", ":", "1", ",",
       "\"", "other", "\"", ":", "\"", "cli", ".js", "\"", "}", "}" >>

ManifestNoBin == << "{", "\"", "name", "\"", ":", "\"", "codex", "\"", "}" >>

ManifestBroken == << "{" >>

PackageDir(root, is_windows) ==
    codex_package_dir(codex_install_prefix(root, is_windows), is_windows)

PackageJson(root, is_windows) ==
    codex_package_json(codex_install_prefix(root, is_windows), is_windows)

CodexJs(root, is_windows) ==
    join(PackageDir(root, is_windows), << "bin", "/", "codex", ".js" >>, is_windows)

CliJs(root, is_windows) == join(PackageDir(root, is_windows), << "cli", ".js" >>, is_windows)

\* the runtimes that may lie under the root
BundledNodes(root, is_windows) ==
    IF is_windows
    THEN { join(node_tools_dir(root, TRUE), << "node", ".exe" >>, TRUE) }
    ELSE { joins(node_tools_dir(root, FALSE), << << "bin" >>, << "node" >> >>, FALSE),
           join(node_tools_dir(root, FALSE), << "node" >>, FALSE) }

UnixWorlds ==
    { [files |-> nodes \cup pkgs \cup found, manifest |-> m, PATH |-> pp,
       PATHEXT |-> None, COMSPEC |-> None] :
        nodes \in { { } } \cup { { f } : f \in BundledNodes(UnixRoot, FALSE) },
        pkgs \in { { }, { PackageJson(UnixRoot, FALSE) }, { CodexJs(UnixRoot, FALSE) },
                   { PackageJson(UnixRoot, FALSE), CodexJs(UnixRoot, FALSE) },
                   { PackageJson(UnixRoot, FALSE), CliJs(UnixRoot, FALSE) } },
        found \in SUBSET { UnixDirA \o << "/", "node" >>, UnixDirA \o << "/", "codex" >> },
        m \in { ManifestNamed, ManifestString, ManifestFirst, ManifestNoBin, ManifestBroken },
        pp \in { None, Some(UnixDirA) } }

\* the files the search path of a Windows system may hold
WinFound ==
    LET a(n) == WinDirA \o << "\\" >> \o n
        b(n) == WinDirB \o << "\\" >> \o n
    IN  { { }, { a(<< "codex", ".cmd" >>) }, { b(<< "codex", ".bat" >>) },
          { a(<< "codex", ".ps1" >>) },
          { a(<< "codex", ".ps1" >>), b(<< "powershell", ".exe" >>) },
          { a(<< "codex", ".exe" >>), a(<< "codex", ".cmd" >>) },
          { a(<< "codex", ".cmd" >>), a(<< "node", ".exe" >>) },
          { a(<< "codex", ".exe" >>), b(<< "codex", ".bat" >>) },
          { a(<< "node", ".exe" >>) } }

WinWorlds ==
    { [files |-> nodes \cup pkgs \cup found, manifest |-> m, PATH |-> penv.PATH,
       PATHEXT |-> None, COMSPEC |-> penv.COMSPEC] :
        nodes \in { { }, BundledNodes(WinRoot, TRUE) },
        pkgs \in { { }, { PackageJson(WinRoot, TRUE) },
                   { PackageJson(WinRoot, TRUE), CodexJs(WinRoot, TRUE) } },
        found \in WinFound,
        m \in { ManifestNamed, ManifestNoBin },
        penv \in { [PATH |-> None, COMSPEC |-> None],
                   [PATH |-> Some(WinDirA),
                    COMSPEC |-> Some(<< "C:", "\\", "Windows", "\\", "cmd", ".exe" >>)] } }

UnixEnvs == { None, Some("PATH" :> UnixDirA), Some("PATH" :> << >>) }

WinEnvs ==
    { None,
      Some("PATH" :> (WinDirA \o << ";" >> \o WinDirB) @@ "COMSPEC" :> << "command", ".com" >>),
      Some("Path" :> (WinDirB \o << ";" >> \o WinDirA)) }

UnixRoots == { None, Some(UnixRoot) }

WinRoots == { None, Some(WinRoot), Some(<< VerbatimPrefix >> \o WinRoot) }

\* the arguments that follow the base argv
NoTail == [prompt |-> << >>, json_output |-> FALSE, extra_args |-> None, device_auth |-> FALSE]

ExecPrompts ==
    { << "hello" >>, << "-", "h" >>, << " ", "-", "h" >>, << "h", "-" >>, << "hello", " " >>,
      << " " >>, << >> }

ExecExtras ==
    { None, Some(<< >>), Some(<< Str("--model"), Str("gpt-5") >>),
      Some(<< Str("--sandbox"), Str(" "), Str("read-only"), << >>, Str("--") >>) }

Tails(fn) ==
    CASE fn = "codex_login_argv" -> { [NoTail EXCEPT !.device_auth = d] : d \in BOOLEAN }
      [] fn = "codex_exec_argv" ->
           { [NoTail EXCEPT !.prompt = p, !.json_output = j, !.extra_args = x] :
               p \in ExecPrompts, j \in BOOLEAN, x \in ExecExtras }
      [] OTHER -> { NoTail }

ArgvCall(fn, W, root_dir, env_map, is_windows, tail) ==
    [fn |-> fn, W |-> W, root_dir |-> root_dir, env_map |-> env_map,
     is_windows |-> is_windows, prompt |-> tail.prompt, json_output |-> tail.json_output,
     extra_args |-> tail.extra_args, device_auth |-> tail.device_auth]

\* the worlds in which the functions that extend the base argv are called:
\* nothing but the package on the disk, or nothing but a shim
PlainWorld(W) ==
    /\ W.PATH = None
    /\ W.manifest = ManifestNamed
    /\ \/ W.files \in { { }, { PackageJson(UnixRoot, FALSE), CodexJs(UnixRoot, FALSE) }
                             \cup { joins(node_tools_dir(UnixRoot, FALSE),
                                          << << "bin" >>, << "node" >> >>, FALSE) } }
       \/ W.files = { WinDirA \o << "\\", "codex", ".cmd" >> }

ArgvCalls ==
    { ArgvCall("codex_base_argv_with_os", W, r, e, FALSE, NoTail) :
        W \in UnixWorlds, r \in UnixRoots, e \in UnixEnvs }
    \cup
    { ArgvCall("codex_base_argv_with_os", W, r, e, TRUE, NoTail) :
        W \in WinWorlds, r \in WinRoots, e \in WinEnvs }
    \cup
    UNION { { ArgvCall(fn, W, Some(UnixRoot), None, FALSE, t) :
                W \in { V \in UnixWorlds : PlainWorld(V) }, t \in Tails(fn) } :
            fn \in { "codex_login_argv", "codex_status_argv", "codex_exec_argv" } }
    \cup
    UNION { { ArgvCall(fn, W, None, Some("Path" :> WinDirA), TRUE, t) :
                W \in { V \in WinWorlds : PlainWorld(V) }, t \in Tails(fn) } :
            fn \in { "codex_login_argv", "codex_status_argv", "codex_exec_argv" } }

InitArgv ==
    /\ InitCalls
    /\ call \in { c \in ArgvCalls : c.W.files = { } /\ c.W.manifest = ManifestNamed
                                     /\ c.fn = "codex_base_argv_with_os" }

BaseOfCall == codex_base_argv_with_os(call.W, call.root_dir, call.env_map, call.is_windows)

\* the call: argv = codex_base_argv_with_os(root_dir, env_map, is_windows)
CallBaseArgv ==
    /\ call.fn = "codex_base_argv_with_os"
    /\ Returns(BaseOfCall)

\* the call: argv = codex_login_argv(root_dir, env_map, device_auth)
CallLoginArgv ==
    /\ call.fn = "codex_login_argv"
    /\ Returns(BaseOfCall \o login_args(call.device_auth))

\* the call: argv = codex_status_argv(root_dir, env_map)
CallStatusArgv ==
    /\ call.fn = "codex_status_argv"
    /\ Returns(BaseOfCall \o status_args)

\* the call: res = codex_exec_argv(prompt, root_dir, env_map, json_output, extra_args)
CallExecArgv ==
    /\ call.fn = "codex_exec_argv"
    /\ Returns(exec_argv_of(BaseOfCall, call.prompt, call.json_output,
                            IF IsSome(call.extra_args) THEN Unwrap(call.extra_args)
                            ELSE << >>))

\* the next call: another function or other arguments in the same world, or
\* the same call after the world has changed
NextArgvCall ==
    \E c \in ArgvCalls :
        /\ c.is_windows = call.is_windows
        /\ \/ c.W = call.W
           \/ /\ c.fn = call.fn
              /\ c.root_dir = call.root_dir
              /\ c.env_map = call.env_map
              /\ c.prompt = call.prompt
              /\ c.json_output = call.json_output
              /\ c.extra_args = call.extra_args
              /\ c.device_auth = call.device_auth
        /\ Calls(c)

NextArgv == CallBaseArgv \/ CallLoginArgv \/ CallStatusArgv \/ CallExecArgv \/ NextArgvCall

SpecArgv == InitArgv /\ [][NextArgv]_vars

\* ---------------------------------------------------------------- C26
\* the argv a call of the agent argv functions returned
AgentArgv == IF call.fn = "codex_exec_argv" THEN result.argv ELSE result

\* a call has returned an argv
ArgvReturned ==
    /\ returned
    /\ call.fn \in { "codex_base_argv_with_os", "codex_login_argv", "codex_status_argv",
                     "codex_exec_argv" }
    /\ call.fn = "codex_exec_argv" => result.ok

\* a runtime lies under the root
BundledRuntime ==
    /\ IsSome(call.root_dir)
    /\ \E f \in BundledNodes(Unwrap(call.root_dir), call.is_windows) :
           exists(call.W, f, call.is_windows)

\* the entry script the package manifest declares, when it exists
BundledEntry ==
    IF IsSome(call.root_dir)
    THEN codex_entrypoint_js(call.W, codex_install_prefix(Unwrap(call.root_dir),
                                                          call.is_windows), call.is_windows)
    ELSE None

\* the search path of the call
SearchPath == search_path_of(call.W, call.env_map, call.is_windows)

\* what the bare agent command resolves to
Resolved == find_in_path(call.W, << "codex" >>, SearchPath, call.is_windows)

\* the lower-case extension of the file the command resolves to
ShimKind ==
    IF IsSome(Resolved) /\ IsSome(extension(Unwrap(Resolved), call.is_windows))
    THEN LowerTok(Unwrap(extension(Unwrap(Resolved), call.is_windows)))
    ELSE "none"

\* COMSPEC of the map, else of the process, else cmd.exe
CommandProcessor ==
    IF IsSome(env_value_from_map(call.env_map, "COMSPEC", call.is_windows))
    THEN Unwrap(env_value_from_map(call.env_map, "COMSPEC", call.is_windows))
    ELSE IF IsSome(call.W.COMSPEC) THEN Unwrap(call.W.COMSPEC)
    ELSE Str("cmd.exe")

\* PowerShell as the search path has it, else its bare name
PowerShell ==
    IF IsSome(find_in_path(call.W, << "powershell" >>, SearchPath, call.is_windows))
    THEN Unwrap(find_in_path(call.W, << "powershell" >>, SearchPath, call.is_windows))
    ELSE << "powershell" >>

\* the argv runs the shim through its shell
ThroughShell ==
    /\ ShimKind \in { ".cmd", ".bat" }
          => result = << CommandProcessor, Str("/d"), Str("/s"), Str("/c"),
                         path_for_cmd(Unwrap(Resolved), call.is_windows) >>
    /\ ShimKind = ".ps1"
          => result = << PowerShell, Str("-NoProfile"), Str("-ExecutionPolicy"),
                         Str("Bypass"), Str("-File"),
                         path_for_cmd(Unwrap(Resolved), call.is_windows) >>

\* C26 as stated: on Windows, with no runtime under the root, a bare agent
\* command that resolves to a .cmd or .bat file gives the base argv
\* [command processor, /d, /s, /c, shim], and one that resolves to a .ps1
\* file gives [PowerShell, -NoProfile, -ExecutionPolicy, Bypass, -File, shim].
C26_ShimThroughShell ==
    (returned /\ call.fn = "codex_base_argv_with_os" /\ call.is_windows /\ ~BundledRuntime)
        => ThroughShell

\* a runtime, under the root or on the search path, and the entry script
\* are both found
RuntimeAndEntry ==
    /\ IsSome(call.root_dir)
    /\ IsSome(BundledEntry)
    /\ IsSome(node_executable_with_os(call.W, Unwrap(call.root_dir), call.env_map,
                                      call.is_windows))

\* C26 (amended): on Windows, unless the entry script of the package exists
\* under the root together with a runtime found under the root or on the
\* search path, a bare agent command that resolves to a .cmd or .bat file
\* gives the base argv [command processor, /d, /s, /c, shim], and one that
\* resolves to a .ps1 file gives [PowerShell, -NoProfile, -ExecutionPolicy,
\* Bypass, -File, shim]; the shim is never the first element.
C26_ShimThroughShellUnlessEntry ==
    (returned /\ call.fn = "codex_base_argv_with_os" /\ call.is_windows /\ ~RuntimeAndEntry)
        => /\ ThroughShell
           /\ ShimKind \in { ".cmd", ".bat", ".ps1" }
                 => result[1] # path_for_cmd(Unwrap(Resolved), call.is_windows)

\* a .CMD shim found through the Path of the map, run by its COMSPEC
C26_Witness ==
    /\ returned
    /\ call.fn = "codex_base_argv_with_os"
    /\ call.is_windows
    /\ ~RuntimeAndEntry
    /\ ShimKind = ".cmd"
    /\ result = << << "command", ".com" >>, Str("/d"), Str("/s"), Str("/c"),
                   WinDirA \o << "\\", "codex", ".CMD" >> >>

\* ---------------------------------------------------------------- C27
\* the runtime under the root
BundledRuntimePath ==
    CHOOSE f \in BundledNodes(Unwrap(call.root_dir), call.is_windows) :
        exists(call.W, f, call.is_windows)

\* the argv starts with the runtime and the entry script
StartsWith(runtime, entry) ==
    /\ Len(AgentArgv) >= 2
    /\ AgentArgv[1] = path_for_cmd(runtime, call.is_windows)
    /\ AgentArgv[2] = path_for_cmd(entry, call.is_windows)

\* what follows the base argv in the argv of the call
TailOfCall ==
    CASE call.fn = "codex_login_argv" -> login_args(call.device_auth)
      [] call.fn = "codex_status_argv" -> status_args
      [] call.fn = "codex_exec_argv" ->
           exec_args(call.prompt, call.json_output,
                     IF IsSome(call.extra_args) THEN Unwrap(call.extra_args) ELSE << >>)
      [] OTHER -> << >>

\* the base argv within the argv of the call
BaseOfArgv == SubSeq(AgentArgv, 1, Len(AgentArgv) - Len(TailOfCall))

\* the agent is what the search path resolves the bare command to (on
\* Windows), or the bare command name
ThroughSearchPath ==
    /\ BaseOfArgv # << >>
    /\ BaseOfArgv[Len(BaseOfArgv)] =
           IF call.is_windows /\ IsSome(Resolved)
           THEN path_for_cmd(Unwrap(Resolved), call.is_windows)
           ELSE Str("codex")

\* C27 as stated: when a runtime and the entry script declared by the
\* manifest exist under the root, every agent argv starts with [runtime,
\* entry script]; otherwise the agent is resolved through the search path
\* or is the bare command name.
C27_BundledFirst ==
    ArgvReturned
        => IF BundledRuntime /\ IsSome(BundledEntry)
           THEN StartsWith(BundledRuntimePath, Unwrap(BundledEntry))
           ELSE ThroughSearchPath

\* C27 (amended): when the entry script declared by the manifest exists
\* under the root, every agent argv starts with [runtime, entry script],
\* where the runtime is the one under the root if there is one and else the
\* one found on the search path, whatever else the search path contains;
\* only when there is no such entry script or no runtime at all is the
\* agent resolved through the search path or the bare command name.
C27_RuntimeAndEntryFirst ==
    ArgvReturned
        => /\ (BundledRuntime /\ IsSome(BundledEntry))
                 => StartsWith(BundledRuntimePath, Unwrap(BundledEntry))
           /\ (RuntimeAndEntry /\ ~BundledRuntime)
                 => StartsWith(Unwrap(find_in_path(call.W, << "node" >>, SearchPath,
                                                   call.is_windows)),
                               Unwrap(BundledEntry))
           /\ ~RuntimeAndEntry => ThroughSearchPath

\* a runtime and the package under the root, an agent and a runtime on the
\* search path as well
C27_Witness ==
    /\ ArgvReturned
    /\ ~call.is_windows
    /\ BundledRuntime
    /\ IsSome(BundledEntry)
    /\ call.env_map = Some("PATH" :> UnixDirA)
    /\ { UnixDirA \o << "/", "node" >>, UnixDirA \o << "/", "codex" >> } \subseteq call.W.files
    /\ StartsWith(BundledRuntimePath, CodexJs(UnixRoot, FALSE))

\* ---------------------------------------------------------------- C29
\* the prompt has a char that is not white space
NonBlank(text) == \E i \in 1..Len(text) : ~IsSpace(text[i])

\* the first char of the prompt that is not white space is a dash
StartsWithDash(text) ==
    \E i \in 1..Len(text) : text[i] = "-" /\ \A j \in 1..(i - 1) : IsSpace(text[j])

\* the extra arguments of the call that are not blank, in their order
GivenExtras ==
    SelectSeq(IF IsSome(call.extra_args) THEN Unwrap(call.extra_args) ELSE << >>, NonBlank)

\* C29: for a prompt that is not blank codex_exec_argv returns an argv that
\* is the base argv, then exec, then --json if asked for, then the extra
\* arguments that are not blank in their given order, then -- exactly when
\* the first non-white-space char of the prompt is a dash, then, last, the
\* prompt as it was given.
C29_ExecArgvShape ==
    (returned /\ call.fn = "codex_exec_argv" /\ NonBlank(call.prompt))
        => /\ result.ok
           /\ result.argv[Len(result.argv)] = call.prompt
           /\ result.argv =
                  BaseOfCall \o << Str("exec") >>
                  \o (IF call.json_output THEN << Str("--json") >> ELSE << >>)
                  \o GivenExtras
                  \o (IF StartsWithDash(call.prompt) THEN << Str("--") >> ELSE << >>)
                  \o << call.prompt >>

\* a prompt with a dash after a space, blank extra arguments among the others
C29_Witness ==
    /\ returned
    /\ call.fn = "codex_exec_argv"
    /\ call.prompt = << " ", "-", "h" >>
    /\ call.json_output
    /\ call.extra_args = Some(<< Str("--sandbox"), Str(" "), Str("read-only"), << >>, Str("--") >>)
    /\ result.ok
    /\ result.argv = << Str("codex"), Str("exec"), Str("--json"), Str("--sandbox"),
                        Str("read-only"), Str("--"), Str("--"), << " ", "-", "h" >> >>

\* ------------------------------------------- the Codex input field: Enter
\* what the field may hold when Enter is pressed
SubmitValues ==
    { << >>, << " " >>, << " ", " " >>, << "\n" >>, Prompt(1), << " " >> \o Prompt(1) \o << " " >> }

\* Enter in the Codex input field.  The terminal UI trims the value and calls
\* run_codex unless it is empty (InputField::handle_key, handle_codex_key);
\* the window UI trims it and calls run_codex, which returns at once when it
\* is empty (gui/mod.rs:733-736).  call records the key press.
SubmitCodex ==
    /\ main_pc = "idle"
    /\ returned
    /\ \E value \in SubmitValues :
         /\ trim(value) # << >> => nprompts < MaxPrompts
         /\ \E S \in { run_codex(Cur, Env, trim(value)) } :
                S.nspawned <= MaxSpawns /\ Commit(S)
         /\ nprompts' = IF trim(value) # << >> THEN nprompts + 1 ELSE nprompts
         /\ call' = [fn |-> "handle_codex_key", value |-> value]
    /\ UNCHANGED <<env_vars, record, display_items, normalized, nagent, result, returned,
                   nui, ncalls, last_argv>>

\* the calls of codex_exec_argv made beside the UI
SubmitExecCalls ==
    { c \in ArgvCalls : /\ c.fn = "codex_exec_argv"
                        /\ ~c.is_windows
                        /\ c.W.files = { }
                        /\ c.json_output
                        /\ c.extra_args = Some(<< Str("--model"), Str("gpt-5") >>) }

\* the children of this specification write no line: the steps are those
\* of Threads and Drain but for ToLine and PollLine
InitSubmit ==
    /\ InitCalls
    /\ call \in { c \in SubmitExecCalls : c.prompt = << "hello" >> }

NextSubmitCall == \E c \in SubmitExecCalls : Calls(c)

NextSubmit ==
    \/ SubmitCodex
    \/ \E h \in Handles : ToSpawnErr(h) \/ ToExit(h)
    \/ DrainWaiting \/ PollExit \/ PollEmpty \/ Join \/ DrainFinish
    \/ CallExecArgv
    \/ NextSubmitCall

SpecSubmit == InitSubmit /\ [][NextSubmit]_vars

\* ---------------------------------------------------------------- C28
\* Enter is pressed on a value with nothing but white space in it
BlankSubmitted ==
    /\ call' # call
    /\ call'.fn = "handle_codex_key"
    /\ ~NonBlank(call'.value)

\* C28: for a prompt that is empty or has only white space codex_exec_argv
\* returns the error EmptyPrompt and no argv; submitting such a prompt
\* starts no process (no status check, no agent invocation) and leaves the
\* pending prompt slot as it was.
C28_BlankPromptRejected ==
    /\ []((returned /\ call.fn = "codex_exec_argv" /\ ~NonBlank(call.prompt))
            => result = [ok |-> FALSE, err |-> "EmptyPrompt", argv |-> << >>])
    /\ [][BlankSubmitted
            => /\ nspawned' = nspawned
               /\ running' = running
               /\ wargv' = wargv
               /\ pending_codex_prompt' = pending_codex_prompt]_vars

\* a blank value submitted while the slot holds the prompt of a running
\* status check
C28_Witness ==
    /\ call = [fn |-> "handle_codex_key", value |-> << " ", " " >>]
    /\ pending_codex_prompt = Some(Prompt(1))
    /\ nspawned = 1
    /\ Len(running) = 1

\* ======================================================= child environment
\* codex/mod.rs: codex_env and tools_env.  The caller's map is borrowed:
\* a call returns [base_env |-> the caller's map after the call,
\* env_map |-> the map returned].  W.vars is the environment of the process.

\* HashMap::insert
put(env, key, value) == (key :> value) @@ env

\* HashMap::remove
without(env, key) == [k \in DOMAIN env \ { key } |-> env[k]]

normalize_path_key(env, is_windows) ==
    IF ~is_windows \/ "PATH" \in DOMAIN env THEN env
    ELSE IF \E k \in DOMAIN env : UpperKey(k) = "PATH"
    THEN put(without(env, CHOOSE k \in DOMAIN env : UpperKey(k) = "PATH"), "PATH",
             env[CHOOSE k \in DOMAIN env : UpperKey(k) = "PATH"])
    ELSE env

RECURSIVE join_with(_, _)
join_with(paths, sep) ==
    IF paths = << >> THEN << >>
    ELSE IF Len(paths) = 1 THEN paths[1]
    ELSE paths[1] \o << sep >> \o join_with(Tail(paths), sep)

\* env::join_paths: Err when a path holds the separator of the list (no
\* path of the model holds a quote, the other error, or a ';' on Windows)
join_paths(paths, is_windows) ==
    IF \E i \in 1..Len(paths) : contains(paths[i], PATH_SEPARATOR(is_windows))
    THEN None
    ELSE Some(join_with(paths, PATH_SEPARATOR(is_windows)))

\* the list with the path put first unless the list has it
inserted(paths, path) ==
    IF \E i \in 1..Len(paths) : paths[i] = path THEN paths ELSE << path >> \o paths

\* the three ways prepend_path writes PATH; env has its PATH key normalized
\* and current is its PATH or the empty string
write_path(env, current, path, is_windows) ==
    IF IsSome(join_paths(inserted(split_paths(current, is_windows), path), is_windows))
    THEN put(env, "PATH",
             Unwrap(join_paths(inserted(split_paths(current, is_windows), path), is_windows)))
    ELSE IF current = << >> THEN put(env, "PATH", path)
    ELSE put(env, "PATH", path \o << PATH_SEPARATOR(is_windows) >> \o current)

\* env_map.get("PATH").cloned().unwrap_or_default()
current_path(env) == IF "PATH" \in DOMAIN env THEN env["PATH"] ELSE << >>

prepend_path(env, path, is_windows) ==
    write_path(normalize_path_key(env, is_windows),
               current_path(normalize_path_key(env, is_windows)), path, is_windows)

tools_install_prefix(root_dir, is_windows) ==
    joins(root_dir, << << ".usbide" >>, << "tools" >> >>, is_windows)

python_scripts_dir(prefix, is_windows) ==
    join(prefix, IF is_windows THEN << "Scripts" >> ELSE << "bin" >>, is_windows)

\* base_env.cloned().unwrap_or_else(|| env::vars().collect())
cloned(W, base_env) == IF IsSome(base_env) THEN Unwrap(base_env) ELSE W.vars

\* codex_env working on the caller's map itself
codex_env_in_place(W, root_dir, base_env, is_windows) ==
    [base_env |-> Some(prepend_path(cloned(W, base_env),
                                    codex_bin_dir(codex_install_prefix(root_dir, is_windows),
                                                  is_windows), is_windows)),
     env_map |-> prepend_path(cloned(W, base_env),
                              codex_bin_dir(codex_install_prefix(root_dir, is_windows),
                                            is_windows), is_windows)]

\* the three prepend_path calls of codex_env on the map env
codex_paths(W, env, node_dir, bin_dir, is_windows) ==
    prepend_path(
        prepend_path(
            IF exists(W, join(node_dir, << "bin" >>, is_windows), is_windows)
            THEN prepend_path(env, join(node_dir, << "bin" >>, is_windows), is_windows)
            ELSE env,
            node_dir, is_windows),
        bin_dir, is_windows)

codex_env(W, root_dir, base_env, is_windows) ==
    [base_env |-> base_env,
     env_map |-> codex_paths(W, normalize_path_key(cloned(W, base_env), is_windows),
                             node_tools_dir(root_dir, is_windows),
                             codex_bin_dir(codex_install_prefix(root_dir, is_windows),
                                           is_windows),
                             is_windows)]

tools_env(W, root_dir, base_env, is_windows) ==
    [base_env |-> base_env,
     env_map |-> prepend_path(normalize_path_key(cloned(W, base_env), is_windows),
                              python_scripts_dir(tools_install_prefix(root_dir, is_windows),
                                                 is_windows),
                              is_windows)]

\* ------------------------------------------------ child environment: calls
\* a root whose name holds the separator of the lists of Unix
UnixRootColon == << "/", "u", ":", "sb" >>

\* the directory that PATH is to start with
BinDir(fn, root_dir, is_windows) ==
    IF fn = "codex_env"
    THEN codex_bin_dir(codex_install_prefix(root_dir, is_windows), is_windows)
    ELSE python_scripts_dir(tools_install_prefix(root_dir, is_windows), is_windows)

\* values of PATH in a base map for a call of fn under root: the one of the
\* tests, the empty one, lists that hold the directories the call adds
BasePaths(fn, root_dir, is_windows) ==
    LET sep == << PATH_SEPARATOR(is_windows) >>
        sys == IF is_windows THEN WinDirA ELSE << "/", "bin" >>
    IN  { sys, << >>,
          sys \o sep \o BinDir(fn, root_dir, is_windows),
          BinDir(fn, root_dir, is_windows) \o sep \o sys,
          sys \o sep \o node_tools_dir(root_dir, is_windows) }

BaseMaps(fn, root_dir, is_windows) ==
    { "HOME" :> << "/", "home" >> }
    \cup { ("PATH" :> p) @@ ("HOME" :> << "/", "home" >>) :
             p \in BasePaths(fn, root_dir, is_windows) }
    \cup (IF is_windows
          THEN { ("Path" :> p) @@ ("ComSpec" :> Str("cmd.exe")) :
                   p \in BasePaths(fn, root_dir, is_windows) }
          ELSE { })

EnvWorlds(root_dir, is_windows) ==
    { [files |-> fl, vars |-> v] :
        fl \in { { }, { join(node_tools_dir(root_dir, is_windows), << "bin" >>, is_windows) } },
        v \in { "PATH" :> (IF is_windows THEN WinDirB ELSE UnixDirB) } }

EnvCalls ==
    UNION { UNION { { [fn |-> fn, W |-> W, root_dir |-> r, base_env |-> b,
                       is_windows |-> win] :
                        W \in EnvWorlds(r, win),
                        b \in { None } \cup { Some(e) : e \in BaseMaps(fn, r, win) } } :
                    r \in IF win THEN { WinRoot } ELSE { UnixRoot, UnixRootColon } } :
            fn \in { "codex_env", "tools_env" }, win \in BOOLEAN }

InitEnv ==
    /\ InitCalls
    /\ call \in { c \in EnvCalls : c.base_env = None }

\* the call: env_map = codex_env(root_dir, base_env)
CallCodexEnv ==
    /\ call.fn = "codex_env"
    /\ Returns(codex_env(call.W, call.root_dir, call.base_env, call.is_windows))

\* the call: env_map = tools_env(root_dir, base_env)
CallToolsEnv ==
    /\ call.fn = "tools_env"
    /\ Returns(tools_env(call.W, call.root_dir, call.base_env, call.is_windows))

NextEnvCall == \E c \in EnvCalls : Calls(c)

NextEnv == CallCodexEnv \/ CallToolsEnv \/ NextEnvCall

SpecEnv == InitEnv /\ [][NextEnv]_vars

\* ---------------------------------------------------------------- C30
\* a call of codex_env or tools_env on a caller's map has returned
EnvReturned ==
    /\ returned
    /\ call.fn \in { "codex_env", "tools_env" }
    /\ IsSome(call.base_env)

\* the caller's map
BaseMap == Unwrap(call.base_env)

\* the names under which a map holds PATH
PathKeys(env) == { k \in DOMAIN env : k = "PATH" \/ (call.is_windows /\ UpperKey(k) = "PATH") }

\* the PATH of the caller's map, empty when it has none
BasePath ==
    IF "PATH" \in DOMAIN BaseMap THEN BaseMap["PATH"]
    ELSE IF PathKeys(BaseMap) # { } THEN BaseMap[CHOOSE k \in PathKeys(BaseMap) : TRUE]
    ELSE << >>

\* text is the start of the other text
IsPrefix(text, other) ==
    Len(text) <= Len(other) /\ SubSeq(other, 1, Len(text)) = text

\* the caller's map is as before, the map returned is another map with the
\* entries of the caller's map but for PATH
FreshMap ==
    /\ result.base_env = call.base_env
    /\ "PATH" \in DOMAIN result.env_map
    /\ \A k \in DOMAIN BaseMap \ PathKeys(BaseMap) :
           k \in DOMAIN result.env_map /\ result.env_map[k] = BaseMap[k]
    /\ DOMAIN result.env_map \ { "PATH" } = DOMAIN BaseMap \ PathKeys(BaseMap)

\* C30 as stated: codex_env and tools_env leave the caller's base map as it
\* was and return a new map, with the other entries of the base map, whose
\* PATH starts with the agent bin directory (codex_env) or the tools bin
\* directory (tools_env).
C30_PathStartsWithBin ==
    EnvReturned
        => /\ FreshMap
           /\ IsPrefix(BinDir(call.fn, call.root_dir, call.is_windows), result.env_map["PATH"])

\* the bin directory is an entry of the PATH of the caller's map
ListedInBase ==
    \E i \in 1..Len(split_paths(BasePath, call.is_windows)) :
        split_paths(BasePath, call.is_windows)[i]
            = BinDir(call.fn, call.root_dir, call.is_windows)

\* C30 (amended): codex_env and tools_env leave the caller's base map as it
\* was and return a new map with the other entries of the base map; the PATH
\* of the new map starts with the agent or tools bin directory unless the
\* PATH of the base map already lists that directory, and then it keeps the
\* directory where the base map has it, behind the entries before it.
C30_PathStartsWithBinUnlessListed ==
    EnvReturned
        => /\ FreshMap
           /\ ~ListedInBase
                 => IsPrefix(BinDir(call.fn, call.root_dir, call.is_windows),
                             result.env_map["PATH"])
           /\ ListedInBase
                 => /\ Len(result.env_map["PATH"]) >= Len(BasePath)
                    /\ SubSeq(result.env_map["PATH"],
                              Len(result.env_map["PATH"]) - Len(BasePath) + 1,
                              Len(result.env_map["PATH"])) = BasePath

\* tools_env on the map of the test: PATH is /bin
C30_Witness ==
    /\ EnvReturned
    /\ call.fn = "tools_env"
    /\ call.root_dir = UnixRoot
    /\ ~call.is_windows
    /\ call.base_env = Some(("PATH" :> << "/", "bin" >>) @@ ("HOME" :> << "/", "home" >>))
    /\ result.base_env = call.base_env
    /\ result.env_map["PATH"]
         = python_scripts_dir(tools_install_prefix(UnixRoot, FALSE), FALSE)
           \o << ":", "/", "bin" >>

\* ======================================================== agent environment
\* ui/mod.rs: the map every agent process is spawned with.  W.vars is the
\* environment of the application.

\* std::env::var(key).ok(): names of variables are matched without case on
\* Windows
env_var(W, key, is_windows) ==
    IF key \in DOMAIN W.vars THEN Some(W.vars[key])
    ELSE IF is_windows /\ \E k \in DOMAIN W.vars : UpperKey(k) = key
    THEN Some(W.vars[CHOOSE k \in DOMAIN W.vars : UpperKey(k) = key])
    ELSE None

\* entry(key).or_insert_with(value)
or_insert(env, key, value) == IF key \in DOMAIN env THEN env ELSE put(env, key, value)

portable_env(root_dir, env_map, is_windows) ==
    put(put(put(put(put(put(put(put(env_map,
        "PIP_CACHE_DIR", joins(root_dir, << << "cache" >>, << "pip" >> >>, is_windows)),
        "PYTHONPYCACHEPREFIX", joins(root_dir, << << "cache" >>, << "pycache" >> >>, is_windows)),
        "TEMP", join(root_dir, << "tmp" >>, is_windows)),
        "TMP", join(root_dir, << "tmp" >>, is_windows)),
        "PYTHONNOUSERSITE", Str("1")),
        "CODEX_HOME", join(root_dir, << "codex_home" >>, is_windows)),
        "NPM_CONFIG_CACHE", joins(root_dir, << << "cache" >>, << "npm" >> >>, is_windows)),
        "NPM_CONFIG_UPDATE_NOTIFIER", Str("false"))

truthy(value) ==
    IF IsSome(value)
    THEN to_lowercase(trim(Unwrap(value))) \in { Str("1"), Str("true"), Str("yes"), Str("on") }
    ELSE FALSE

\* the keys removed when the override that goes with them is not set
remove_all(env_map, keys) == [k \in DOMAIN env_map \ keys |-> env_map[k]]

\* sanitize_codex_env with the override of the keys for the addresses too
sanitize_codex_env_one_override(W, env_map, is_windows) ==
    IF truthy(env_var(W, "USBIDE_CODEX_ALLOW_API_KEY", is_windows)) THEN env_map
    ELSE remove_all(env_map, { "OPENAI_API_KEY", "CODEX_API_KEY", "OPENAI_BASE_URL",
                               "OPENAI_API_BASE", "OPENAI_API_HOST" })

sanitize_codex_env(W, env_map, is_windows) ==
    remove_all(
        remove_all(env_map,
                   IF truthy(env_var(W, "USBIDE_CODEX_ALLOW_API_KEY", is_windows)) THEN { }
                   ELSE { "OPENAI_API_KEY", "CODEX_API_KEY" }),
        IF truthy(env_var(W, "USBIDE_CODEX_ALLOW_CUSTOM_BASE", is_windows)) THEN { }
        ELSE { "OPENAI_BASE_URL", "OPENAI_API_BASE", "OPENAI_API_HOST" })

\* the map of the process with the defaults of Python and the portable
\* directories
app_base_env(W, root_dir, is_windows) ==
    portable_env(root_dir,
                 or_insert(or_insert(W.vars, "PYTHONUTF8", Str("1")),
                           "PYTHONIOENCODING", Str("utf-8")),
                 is_windows)

\* App::codex_env
app_codex_env(W, root_dir, is_windows) ==
    codex_env(W, root_dir,
              Some(sanitize_codex_env(W, app_base_env(W, root_dir, is_windows), is_windows)),
              is_windows).env_map

\* App::tools_env
app_tools_env(W, root_dir, is_windows) ==
    tools_env(W, root_dir, Some(app_base_env(W, root_dir, is_windows)), is_windows).env_map

AgentKinds == { "CodexLogin", "CodexStatus", "CodexExec", "CodexInstall" }

\* the env_map each caller of spawn_process passes for a process of the kind
spawn_env(W, root_dir, kind, is_windows) ==
    IF kind \in AgentKinds THEN app_codex_env(W, root_dir, is_windows)
    ELSE IF kind \in { "Shell", "PythonRun" } THEN portable_env(root_dir, W.vars, is_windows)
    ELSE app_tools_env(W, root_dir, is_windows)

\* ------------------------------------------------ agent environment: calls
ApiKeys == { "OPENAI_API_KEY", "CODEX_API_KEY" }
BaseKeys == { "OPENAI_BASE_URL", "OPENAI_API_BASE", "OPENAI_API_HOST" }

\* the secrets of an environment: each key holds a value of its own
SecretValue(k) ==
    CASE k = "OPENAI_API_KEY" -> Str("sk-test")
      [] k = "CODEX_API_KEY" -> Str("sk-codex")
      [] OTHER -> Str("https://example.com")

SecretSets ==
    { { }, ApiKeys \cup BaseKeys, { "OPENAI_API_KEY" }, { "OPENAI_BASE_URL" },
      { "CODEX_API_KEY", "OPENAI_API_HOST" }, { "OPENAI_API_BASE" } }

\* values of an override: unset, set as the tests set it, set with blanks
\* and capitals, set to a value that is not truthy
OverrideValues == { None, Some(Str("1")), Some(<< " ", "TRUE", " " >>), Some(Str("0")) }

overrides(api, base, api_key, base_key) ==
    (IF IsSome(api) THEN api_key :> Unwrap(api) ELSE << >>)
    @@ (IF IsSome(base) THEN base_key :> Unwrap(base) ELSE << >>)

secrets(keys) == [k \in keys |-> SecretValue(k)]

SanitizeWorlds(is_windows) ==
    { [files |-> { },
       vars |-> ("PATH" :> (IF is_windows THEN WinDirB ELSE UnixDirB))
                @@ secrets(keys)
                @@ overrides(api, base, "USBIDE_CODEX_ALLOW_API_KEY",
                             "USBIDE_CODEX_ALLOW_CUSTOM_BASE")] :
        keys \in SecretSets, api \in OverrideValues, base \in OverrideValues }
    \cup (IF is_windows
          THEN { [files |-> { },
                  vars |-> ("Path" :> WinDirB) @@ secrets(ApiKeys \cup BaseKeys)
                           @@ overrides(api, None, "usbide_codex_allow_api_key",
                                        "USBIDE_CODEX_ALLOW_CUSTOM_BASE")] :
                   api \in OverrideValues }
          ELSE { })

SpawnKinds == AgentKinds \cup { "Shell", "PipInstall" }

SanitizeCalls ==
    UNION { { [fn |-> "spawn_process", kind |-> kind, W |-> W,
               root_dir |-> IF win THEN WinRoot ELSE UnixRoot, is_windows |-> win] :
                W \in SanitizeWorlds(win), kind \in SpawnKinds } :
            win \in BOOLEAN }

InitSanitize ==
    /\ InitCalls
    /\ call \in { c \in SanitizeCalls : c.kind = "CodexStatus" }

\* a caller builds the map and passes it to spawn_process
CallSpawnEnv ==
    /\ call.fn = "spawn_process"
    /\ Returns(spawn_env(call.W, call.root_dir, call.kind, call.is_windows))

\* the next process is of another kind, or the same kind under another
\* environment
NextSanitizeCall ==
    /\ call.fn = "spawn_process"
    /\ \E c \in SanitizeCalls :
        /\ c.is_windows = call.is_windows
        /\ c.W = call.W \/ c.kind = call.kind
        /\ Calls(c)

NextSanitize == CallSpawnEnv \/ NextSanitizeCall

SpecSanitize == InitSanitize /\ [][NextSanitize]_vars

\* ---------------------------------------------------------------- C31
\* the map of an agent process has been built
AgentEnvBuilt ==
    /\ returned
    /\ call.fn = "spawn_process"
    /\ call.kind \in AgentKinds

\* the override is set to one of 1, true, yes, on, blanks around and
\* capitals allowed
Override(key) == truthy(env_var(call.W, key, call.is_windows))

\* the map holds none of the keys
HoldsNone(keys) == DOMAIN result \cap keys = { }

\* the map holds the keys that the environment holds, with their values
PassedThrough(keys) ==
    \A k \in keys :
        IF k \in DOMAIN call.W.vars
        THEN k \in DOMAIN result /\ result[k] = call.W.vars[k]
        ELSE k \notin DOMAIN result

\* C31: the map passed to a status, login, exec or install process holds
\* neither OPENAI_API_KEY nor CODEX_API_KEY unless USBIDE_CODEX_ALLOW_API_KEY
\* is truthy, and none of OPENAI_BASE_URL, OPENAI_API_BASE, OPENAI_API_HOST
\* unless USBIDE_CODEX_ALLOW_CUSTOM_BASE is truthy; under a truthy override
\* the keys of its group are passed with the values of the environment
C31_SecretsRemovedUnlessOverride ==
    AgentEnvBuilt =>
        /\ IF Override("USBIDE_CODEX_ALLOW_API_KEY") THEN PassedThrough(ApiKeys)
           ELSE HoldsNone(ApiKeys)
        /\ IF Override("USBIDE_CODEX_ALLOW_CUSTOM_BASE") THEN PassedThrough(BaseKeys)
           ELSE HoldsNone(BaseKeys)

\* an exec process under an environment with all five keys, the override
\* of the API keys set with blanks and capitals, the other one unset: the
\* two API keys are passed, the three addresses are removed
C31_Witness ==
    /\ AgentEnvBuilt
    /\ call.kind = "CodexExec"
    /\ ApiKeys \cup BaseKeys \subseteq DOMAIN call.W.vars
    /\ "USBIDE_CODEX_ALLOW_API_KEY" \in DOMAIN call.W.vars
    /\ call.W.vars["USBIDE_CODEX_ALLOW_API_KEY"] = << " ", "TRUE", " " >>
    /\ "USBIDE_CODEX_ALLOW_CUSTOM_BASE" \notin DOMAIN call.W.vars
    /\ result["OPENAI_API_KEY"] = Str("sk-test")
    /\ result["CODEX_API_KEY"] = Str("sk-codex")
    /\ HoldsNone(BaseKeys)

\* ============================================================ install argv
\* codex/mod.rs: codex_install_argv and npm_cli_js over the file system of
\* W; ui/mod.rs: the forced install of action_codex_install.

IsSeparator(token, is_windows) == token = "/" \/ (is_windows /\ token = "\\")

\* the position of the last separator of a path, 0 without one
RECURSIVE last_separator(_, _)
last_separator(path, is_windows) ==
    IF path = << >> THEN 0
    ELSE IF IsSeparator(path[Len(path)], is_windows) THEN Len(path)
    ELSE last_separator(SubSeq(path, 1, Len(path) - 1), is_windows)

\* the tokens before the first component: the root, a drive and its root
root_len(path, is_windows) ==
    IF is_windows /\ Len(path) >= 2 /\ path[1] = "C:" /\ IsSeparator(path[2], TRUE) THEN 2
    ELSE IF is_windows /\ Len(path) >= 1 /\ path[1] = "C:" THEN 1
    ELSE IF Len(path) >= 1 /\ IsSeparator(path[1], is_windows) THEN 1
    ELSE 0

\* Path::parent: None for a root or the empty path, the empty path for a
\* single relative component
parent(path, is_windows) ==
    IF Len(path) <= root_len(path, is_windows) THEN None
    ELSE IF last_separator(path, is_windows) <= root_len(path, is_windows)
    THEN Some(SubSeq(path, 1, root_len(path, is_windows)))
    ELSE Some(SubSeq(path, 1, last_separator(path, is_windows) - 1))

\* a path with each "component/.." pair taken out; W has no symbolic link
RECURSIVE resolve_dots(_, _, _)
resolve_dots(done, rest, is_windows) ==
    IF rest = << >> THEN done
    ELSE IF Head(rest) = ".."
    THEN resolve_dots(IF IsSome(parent(SubSeq(done, 1, Len(done) - 1), is_windows))
                      THEN Unwrap(parent(SubSeq(done, 1, Len(done) - 1), is_windows))
                      ELSE SubSeq(done, 1, Len(done) - 1),
                      IF Len(rest) >= 2 /\ Len(done) - 1 <= root_len(done, is_windows)
                      THEN Tail(Tail(rest)) ELSE Tail(rest),
                      is_windows)
    ELSE resolve_dots(Append(done, Head(rest)), Tail(rest), is_windows)

\* Path::canonicalize: Err for a path that does not exist, else the
\* absolute path without "..", a verbatim path on Windows
canonicalize(W, path, is_windows) ==
    IF ~exists(W, resolve_dots(<< >>, path, is_windows), is_windows) THEN None
    ELSE IF is_windows
    THEN Some(<< VerbatimPrefix >> \o path_for_cmd(resolve_dots(<< >>, path, TRUE), TRUE))
    ELSE Some(resolve_dots(<< >>, path, FALSE))

NpmCli == << << "node_modules" >>, << "npm" >>, << "bin" >>, << "npm-cli", ".js" >> >>

\* for alt in [..]: the first that canonicalizes and exists
RECURSIVE first_resolved(_, _, _)
first_resolved(W, alts, is_windows) ==
    IF alts = << >> THEN None
    ELSE IF /\ IsSome(canonicalize(W, Head(alts), is_windows))
            /\ exists(W, Unwrap(canonicalize(W, Head(alts), is_windows)), is_windows)
    THEN canonicalize(W, Head(alts), is_windows)
    ELSE first_resolved(W, Tail(alts), is_windows)

\* npm_cli_js from the directory of the runtime
npm_cli_js_in(W, node_dir, is_windows) ==
    IF exists(W, joins(node_dir, NpmCli, is_windows), is_windows)
    THEN Some(joins(node_dir, NpmCli, is_windows))
    ELSE first_resolved(W,
            << joins(unwrap_or(parent(node_dir, is_windows), node_dir),
                     << << "lib" >> >> \o NpmCli, is_windows),
               joins(node_dir, << << ".." >>, << "lib" >> >> \o NpmCli, is_windows) >>,
            is_windows)

\* npm_cli_js(root_dir, Some(node))
npm_cli_js(W, node, is_windows) ==
    IF ~IsSome(node) THEN None
    ELSE IF ~IsSome(parent(Unwrap(node), is_windows)) THEN None
    ELSE npm_cli_js_in(W, Unwrap(parent(Unwrap(node), is_windows)), is_windows)

\* Option<PathBuf> as path_for_cmd writes it
for_cmd(path, is_windows) ==
    IF IsSome(path) THEN Some(path_for_cmd(Unwrap(path), is_windows)) ELSE None

\* codex_install_argv(root_dir, prefix, package) over W
codex_install_argv_with_os(W, root_dir, prefix, package, is_windows) ==
    install_argv_of(
        for_cmd(node_executable_with_os(W, root_dir, None, is_windows), is_windows),
        for_cmd(npm_cli_js(W, node_executable_with_os(W, root_dir, None, is_windows),
                           is_windows), is_windows),
        path_for_cmd(prefix, is_windows), package)

\* std::env::var("USBIDE_CODEX_NPM_PACKAGE").unwrap_or_else(..)
npm_package(W, is_windows) ==
    unwrap_or(env_var(W, "USBIDE_CODEX_NPM_PACKAGE", is_windows), Str("@openai/codex"))

\* what install_codex reads, over W
install_env(W, root_dir, is_windows) ==
    [cli |-> fs_codex,
     node |-> IsSome(node_executable_with_os(W, root_dir,
                        Some(app_codex_env(W, root_dir, is_windows)), is_windows)),
     node_plain |-> IsSome(node_executable_with_os(W, root_dir, None, is_windows)),
     npm |-> IsSome(npm_cli_js(W, node_executable_with_os(W, root_dir, None, is_windows),
                               is_windows)),
     auto_install |-> env_auto_install, device_auth |-> env_device_auth,
     package |-> npm_package(W, is_windows)]

\* action_codex_install: install_codex(true, LogTarget::Codex)
action_codex_install(S, E) == install_codex(S, E, TRUE, "Codex").s

\* ----------------------------------------------------- install argv: calls
\* the runtimes and the scripts of npm a file system may hold
InstallNodes(is_windows) ==
    IF is_windows
    THEN { { }, BundledNodes(WinRoot, TRUE),
           { join(node_tools_dir(WinRoot, TRUE), << "node", ".cmd" >>, TRUE) },
           { WinDirA \o << "\\", "node", ".exe" >> } }
    ELSE { { }, { joins(node_tools_dir(UnixRoot, FALSE), << << "bin" >>, << "node" >> >>, FALSE) },
           { join(node_tools_dir(UnixRoot, FALSE), << "node" >>, FALSE) },
           { UnixDirA \o << "/", "node" >> },
           { joins(node_tools_dir(UnixRoot, FALSE), << << "bin" >>, << "node" >> >>, FALSE),
             UnixDirA \o << "/", "node" >> } }

InstallScripts(is_windows) ==
    IF is_windows
    THEN { joins(node_tools_dir(WinRoot, TRUE), NpmCli, TRUE),
           joins(WinRoot, << << "tools" >>, << "lib" >> >> \o NpmCli, TRUE),
           joins(WinDirA, NpmCli, TRUE) }
    ELSE { joins(node_tools_dir(UnixRoot, FALSE), << << "bin" >> >> \o NpmCli, FALSE),
           joins(node_tools_dir(UnixRoot, FALSE), << << "lib" >> >> \o NpmCli, FALSE),
           joins(node_tools_dir(UnixRoot, FALSE), NpmCli, FALSE),
           joins(<< "/" >>, << << "lib" >> >> \o NpmCli, FALSE) }

\* the environment of the application: PATH and the name of the package
InstallVars(path, package) ==
    (IF IsSome(path) THEN "PATH" :> Unwrap(path) ELSE << >>)
    @@ (IF IsSome(package) THEN "USBIDE_CODEX_NPM_PACKAGE" :> Unwrap(package) ELSE << >>)

InstallWorlds(is_windows) ==
    { [files |-> nodes \cup scripts, PATH |-> path, PATHEXT |-> None,
       vars |-> InstallVars(path, package)] :
        nodes \in InstallNodes(is_windows),
        scripts \in { { } } \cup { { f } : f \in InstallScripts(is_windows) },
        path \in { None, Some(IF is_windows THEN WinDirA ELSE UnixDirA) },
        package \in { None, Some(<< " " >>), Some(Str("codex-fork")) } }

InstallPackages == { Str("@openai/codex"), << " " >>, << >>, << " ", "codex-fork" >> }

InstallCalls ==
    UNION { { [fn |-> "codex_install_argv", W |-> W,
               root_dir |-> IF win THEN WinRoot ELSE UnixRoot,
               package |-> package, is_windows |-> win] :
                W \in { V \in InstallWorlds(win) : "USBIDE_CODEX_NPM_PACKAGE" \notin DOMAIN V.vars },
                package \in InstallPackages }
            \cup { [fn |-> "action_codex_install", W |-> W,
                    root_dir |-> IF win THEN WinRoot ELSE UnixRoot, is_windows |-> win] :
                     W \in InstallWorlds(win) } :
            win \in BOOLEAN }

InitInstallArgv ==
    /\ InitCalls
    /\ call \in { c \in InstallCalls : c.fn = "codex_install_argv" /\ c.W.files = { } }

\* the call: codex_install_argv(root_dir, &codex_install_prefix(root_dir), package)
CallInstallArgv ==
    /\ call.fn = "codex_install_argv"
    /\ Returns(codex_install_argv_with_os(call.W, call.root_dir,
                   codex_install_prefix(call.root_dir, call.is_windows), call.package,
                   call.is_windows))

\* Ctrl+I: the forced install, result is what codex_install_argv gives it
\* under the file system and the environment of the call
ActionCodexInstall ==
    /\ call.fn = "action_codex_install"
    /\ main_pc = "idle"
    /\ ~returned
    /\ \E S \in { action_codex_install(Cur, install_env(call.W, call.root_dir,
                                                        call.is_windows)) } :
           S.nspawned <= MaxSpawns /\ Commit(S)
    /\ result' = codex_install_argv_with_os(call.W, call.root_dir,
                     codex_install_prefix(call.root_dir, call.is_windows),
                     npm_package(call.W, call.is_windows), call.is_windows)
    /\ returned' = TRUE
    /\ UNCHANGED <<env_vars, call, record, display_items, normalized, nagent, user_vars>>

\* the next call: another package or another caller under the same file
\* system, or the same call under another file system
NextInstallCall ==
    /\ returned
    /\ \E c \in InstallCalls :
        /\ c.is_windows = call.is_windows
        /\ c.W = call.W \/ (c.fn = call.fn /\ c.fn = "codex_install_argv"
                            /\ c.package = call.package)
             \/ (c.fn = call.fn /\ c.fn = "action_codex_install"
                 /\ c.W.vars = call.W.vars)
        /\ Calls(c)

NextInstallArgv == CallInstallArgv \/ ActionCodexInstall \/ NextInstallCall

SpecInstallArgv == InitInstallArgv /\ [][NextInstallArgv]_vars

\* ---------------------------------------------------------------- C32
\* the runtime and the script of npm that codex_install_argv finds under
\* the file system of the call
RuntimeFound == node_executable_with_os(call.W, call.root_dir, None, call.is_windows)

ScriptFound == npm_cli_js(call.W, RuntimeFound, call.is_windows)

\* the package of the call: the argument, or what the orchestrator reads
PackageGiven ==
    IF call.fn = "codex_install_argv" THEN call.package
    ELSE npm_package(call.W, call.is_windows)

InstallArgvReturned ==
    /\ returned
    /\ call.fn \in { "codex_install_argv", "action_codex_install" }

\* the named condition of a result, "" for an argv
Condition(res) == IF res.ok THEN "" ELSE res.err

\* C32: codex_install_argv gives EmptyPackage for a blank package whether
\* or not a runtime exists, else NodeMissing without a runtime, else
\* NpmMissing without the script of npm, each with no argv, and else an
\* argv; a forced install that gets one of the three conditions spawns no
\* process
C32_InstallFailuresNamed ==
    /\ [](InstallArgvReturned =>
            /\ Condition(result) =
                 (IF trim(PackageGiven) = << >> THEN "EmptyPackage"
                  ELSE IF ~IsSome(RuntimeFound) THEN "NodeMissing"
                  ELSE IF ~IsSome(ScriptFound) THEN "NpmMissing"
                  ELSE "")
            /\ ~result.ok => result.argv = << >>
            /\ result.ok => Len(result.argv) = 8)
    /\ [][(call.fn = "action_codex_install" /\ ~returned /\ returned' /\ ~result'.ok)
            => (nspawned' = nspawned /\ running' = running /\ wargv' = wargv)]_vars

\* a forced install on Windows where node.cmd in the directory of the tools
\* passes ensure_node_available and codex_install_argv finds no runtime:
\* NodeMissing, nothing spawned
C32_Witness ==
    /\ InstallArgvReturned
    /\ call.fn = "action_codex_install"
    /\ call.is_windows
    /\ install_env(call.W, call.root_dir, TRUE).node
    /\ result = [ok |-> FALSE, err |-> "NodeMissing", argv |-> << >>]
    /\ nspawned = 0
    /\ codex_install_attempted

\* a blank package with a runtime and its script present: EmptyPackage
C32_WitnessBlankPackage ==
    /\ InstallArgvReturned
    /\ call.fn = "codex_install_argv"
    /\ trim(call.package) = << >>
    /\ IsSome(RuntimeFound)
    /\ IsSome(ScriptFound)
    /\ result.err = "EmptyPackage"

\* a runtime without the script of npm: NpmMissing, nothing spawned
C32_WitnessNpmMissing ==
    /\ InstallArgvReturned
    /\ call.fn = "action_codex_install"
    /\ IsSome(RuntimeFound)
    /\ result.err = "NpmMissing"
    /\ nspawned = 0

\* a forced install that spawned
C32_WitnessSpawned ==
    /\ InstallArgvReturned
    /\ call.fn = "action_codex_install"
    /\ result.ok
    /\ nspawned = 1

\* ---------------------------------------------------------------- C33
\* the state of the negotiation: what the agent is known to support, the
\* retry marks and the pending prompt
NegotiationState ==
    << codex_sandbox_supported, codex_approval_supported, codex_retry_without_sandbox,
       codex_retry_without_approval, pending_codex_prompt >>

\* a thread of a handle sends: an event is added to the channel
ThreadSends == \E h \in Handles : Len(chan'[h]) > Len(chan[h])

\* the main loop takes the event at the head of the channel it polls and
\* handles it
HandlesEvent ==
    /\ main_pc = "poll"
    /\ active # << >>
    /\ chan[Head(active).handle] # << >>
    /\ chan'[Head(active).handle] = Tail(chan[Head(active).handle])

\* the main loop, outside a drain, runs the action of a key or of a prompt
UserActs == main_pc = "idle" /\ (nui' = nui + 1 \/ nprompts' = nprompts + 1)

\* C33: the capability state, the retry marks and the pending prompt change
\* only in a step of the main loop that handles a drained event or a user
\* action; a step in which a worker or reader thread sends an event leaves
\* them, and every other field of the application, as they are
C33_StateWrittenByMainLoop ==
    [][/\ NegotiationState' # NegotiationState => HandlesEvent \/ UserActs
       /\ ThreadSends => UNCHANGED app_vars /\ ~HandlesEvent /\ ~UserActs]_vars

\* the main loop has withdrawn the sandbox flag and marked the retry on a
\* line of the exec process, and the worker of that process has since sent
\* its Exit, which waits in the channel
C33_Witness ==
    /\ codex_sandbox_supported = Some(FALSE)
    /\ codex_retry_without_sandbox
    /\ main_pc = "idle"
    /\ \E i \in 1..Len(running) :
         /\ running[i].kind = "CodexExec"
         /\ chan[running[i].handle] # << >>
         /\ Head(chan[running[i].handle]).kind = "Exit"

\* ======================================================= abandoned handles
\* process/mod.rs: a ProcHandle that is no longer polled, or dropped.  The
\* drain steps are there without fairness: the consumer may stop at any
\* point; the threads are scheduled by the OS, and the child is taken to
\* end and to close its streams.

\* the ProcHandle of a running process is dropped: its Receiver goes with
\* the events still queued, its JoinHandle detaches the worker
DropHandle ==
    /\ main_pc = "idle"
    /\ \E i \in 1..Len(running) :
         /\ running' = SubSeq(running, 1, i - 1) \o SubSeq(running, i + 1, Len(running))
         /\ chan' = [chan EXCEPT ![running[i].handle] = << >>]
    /\ UNCHANGED <<wpc, wargv, wstatus, rdr, nlines, nspawned, env_vars, norm_vars,
                   user_vars, hist_vars, active, remaining, main_pc, log, codex_log,
                   codex_compact_view, codex_sandbox_mode, codex_approval_policy,
                   codex_sandbox_supported, codex_approval_supported,
                   codex_exec_used_sandbox_flag, codex_exec_used_approval_flag,
                   codex_last_prompt, pending_codex_prompt, codex_retry_without_sandbox,
                   codex_retry_without_approval, last_codex_message,
                   codex_assistant_buffer, codex_install_attempted>>

NextAbandon == SpawnCall \/ Engine \/ DrainSteps \/ DropHandle

FairThreads ==
    \A h \in 1..MaxEngineCalls :
        /\ WF_vars(Worker(h))
        /\ \A st \in Streams : WF_vars(ReaderEof(h, st))

SpecAbandon == InitEngine /\ [][NextAbandon]_vars /\ FairThreads

\* ---------------------------------------------------------------- C34
\* the threads of h have ended: the worker has returned, no reader runs
ThreadsEnded(h) ==
    /\ wpc[h] \in { "done", "joined" }
    /\ rdr[h].out # "run"
    /\ rdr[h].err # "run"

\* a thread of h that has an event to send can send it now
CanSend(h) ==
    /\ \A st \in Streams :
         rdr[h][st] = "run" /\ nlines[h] < MaxLines => ENABLED ReaderLine(h, st)
    /\ wpc[h] = "join" /\ rdr[h].out = "done" /\ rdr[h].err = "done"
         => ENABLED WorkerSendExit(h)

\* C34: whether the consumer polls the handle, stops polling it or drops
\* it, a thread that has an event to send is never made to wait, a send
\* without a Receiver changes no channel, dropping a handle changes the
\* state of no thread and of no child, and the worker and both readers of
\* every handle end
C34_AbandonedHandleRunsToEnd ==
    /\ [](\A h \in 1..MaxEngineCalls : CanSend(h))
    /\ [][/\ (\E h \in Handles : ReceiverAlive(h) /\ ~ReceiverAlive(h)' /\ wpc[h] # "done")
            => UNCHANGED <<wpc, rdr, wstatus, nlines>>
          /\ \A h \in Handles : ~ReceiverAlive(h) /\ wpc[h] # "joined"
            => chan'[h] = << >> /\ chan[h] = << >>]_vars
    /\ \A h \in 1..MaxEngineCalls : (wpc[h] = "start") ~> ThreadsEnded(h)

\* a handle dropped before its threads sent anything: the child ran, a
\* line and the Exit were sent to no Receiver, the worker has returned
C34_Witness ==
    \E h \in Handles :
        /\ ~ReceiverAlive(h)
        /\ wpc[h] = "done"
        /\ rdr[h] = [out |-> "done", err |-> "done"]
        /\ nlines[h] = 1
        /\ wstatus[h] = Some(0)
        /\ sent[h] = << >>
        /\ chan[h] = << >>

\* ---------------------------------------------------------------- C35
\* the handles of a list of running processes
HandlesOf(procs) == { procs[i].handle : i \in 1..Len(procs) }

\* the handles stream_subprocess has returned whose Exit the drain has not
\* observed (the drain joins a handle right after it observes its Exit)
Unfinished == { h \in 1..nspawned : wpc[h] # "joined" }

\* the main loop observes the Exit at the head of the channel it polls
ObservesExit ==
    /\ HandlesEvent
    /\ Head(chan[Head(active).handle]).kind = "Exit"

\* C35: between two drains the running set holds each handle that was
\* spawned and whose Exit has not been observed, once, and no other; the
\* drain that observes the Exit of a handle takes no further event of it
\* and hands it to no list, so that it is not in the running set the drain
\* leaves; what a handler spawns during the drain is in that running set
C35_RunningIsUnfinished ==
    /\ [](main_pc = "idle" =>
            /\ HandlesOf(running) = Unfinished
            /\ Len(running) = Cardinality(Unfinished))
    /\ [](\A h \in Handles : wpc[h] = "joined" => ~ReceiverAlive(h) /\ chan[h] = << >>)
    /\ [][/\ ObservesExit =>
               /\ main_pc' = "join"
               /\ Head(active') = Head(active)
               /\ Head(active).handle \notin HandlesOf(remaining') \cup HandlesOf(running')
          /\ main_pc = "join" =>
               /\ wpc'[Head(active).handle] = "joined"
               /\ Head(active).handle \notin
                      HandlesOf(running') \cup HandlesOf(active') \cup HandlesOf(remaining')
          /\ main_pc = "poll" /\ nspawned' = nspawned + 1 =>
               nspawned' \in HandlesOf(running')
          /\ main_pc = "poll" /\ main_pc' = "idle" =>
               /\ running' = remaining \o running
               /\ HandlesOf(running') = Unfinished']_vars

\* after a drain that observed the Exit of the status check and in which
\* the exit handler spawned the exec process: the first handle is joined and
\* gone, the running set holds the exec process
C35_Witness ==
    /\ main_pc = "idle"
    /\ nspawned = 2
    /\ wpc[1] = "joined"
    /\ Len(running) = 1
    /\ running[1].handle = 2
    /\ running[1].kind = "CodexExec"
    /\ contains(wargv[2], Str("exec"))

\* ---------------------------------------------------------------- C36
\* the process whose event the main loop is taking, and that event
PolledProc == Head(active)

PolledEvent == Head(chan[Head(active).handle])

\* the main loop observes the Exit of a process of the kind
ObservesExitOf(kind) == ObservesExit /\ PolledProc.kind = kind

\* an agent exec process is launched: stream_subprocess returns a new
\* handle for an exec argv
ExecLaunched ==
    /\ nspawned' = nspawned + 1
    /\ contains(wargv'[nspawned'], Str("exec"))

\* the launch is the retry of an exec process that has exited with a retry
\* mark set
IsRetryLaunch ==
    /\ ObservesExitOf("CodexExec")
    /\ codex_retry_without_sandbox \/ codex_retry_without_approval

\* C36: an exec process that is not a retry is launched only in the step
\* that observes the Exit of a status check with return code 0 while the
\* pending slot holds a prompt, and it is launched for that prompt; a
\* status check that exits with another or no return code empties the
\* slot and launches nothing; a status check that exits while the slot is
\* empty launches nothing and leaves the slot empty
C36_ExecAfterStatusOk ==
    [][/\ ExecLaunched /\ ~IsRetryLaunch =>
            /\ ObservesExitOf("CodexStatus")
            /\ PolledEvent.returncode = Some(0)
            /\ IsSome(pending_codex_prompt)
            /\ prompt_of(wargv'[nspawned']) = Unwrap(pending_codex_prompt)
            /\ pending_codex_prompt' = None
       /\ ObservesExitOf("CodexStatus") /\ PolledEvent.returncode # Some(0) =>
            /\ pending_codex_prompt' = None
            /\ nspawned' = nspawned
            /\ running' = running
       /\ ObservesExitOf("CodexStatus") /\ pending_codex_prompt = None =>
            /\ pending_codex_prompt' = None
            /\ nspawned' = nspawned
            /\ running' = running]_vars

\* the status check of the first prompt has exited with 0 and the exec
\* process of that prompt has been launched from the pending slot
C36_Witness ==
    /\ main_pc = "join"
    /\ Head(active).kind = "CodexStatus"
    /\ wstatus[Head(active).handle] = Some(0)
    /\ nspawned = 2
    /\ prompt_of(wargv[2]) = Prompt(1)
    /\ contains(wargv[2], Str("exec"))
    /\ pending_codex_prompt = None
    /\ codex_last_prompt = Some(Prompt(1))

\* a status check has exited with 1: the prompt is gone, nothing launched
C36_WitnessDiscarded ==
    /\ main_pc = "join"
    /\ Head(active).kind = "CodexStatus"
    /\ wstatus[Head(active).handle] = Some(1)
    /\ nprompts = 1
    /\ nspawned = 1
    /\ pending_codex_prompt = None
    /\ codex_last_prompt = None

\* the status check of a second prompt exits after the first one has taken
\* the prompt out of the slot: nothing is launched for it
C36_WitnessEmptySlot ==
    /\ main_pc = "join"
    /\ Head(active).kind = "CodexStatus"
    /\ Head(active).handle = 2
    /\ wpc[1] = "joined"
    /\ nprompts = 2
    /\ nspawned = 3
    /\ prompt_of(wargv[3]) = Prompt(2)
    /\ pending_codex_prompt = None

\* ====================================================== lines under a mark
\* ui/mod.rs: handle_codex_line on the lines an exec process writes when it
\* rejects a flag: the error line, then lines of help, text and events.
RetryLines ==
    { <<"error:", "unexpected argument", "--sandbox", "found", "\n">>,
      <<"error:", "unexpected argument", "--ask-for-approval", "found", "\n">>,
      <<"usage: codex exec", "[OPTIONS]", "[PROMPT]", "\n">>,
      <<"hello", "\r", "\n">>,
      to_string(JObj(<< Member("type", JStr(<<"response.output_text.delta">>)),
                        Member("delta", JStr(<<"a">>)) >>)) \o <<"\n">> }

\* a reader of an exec process sends one of these lines
ToRetryLine(h) ==
    /\ main_pc = "idle"
    /\ wpc[h] \in {"start", "wait"}
    /\ contains(wargv[h], Str("exec"))
    /\ chan[h] = << >>
    /\ nagent < MaxAgentLines
    /\ nagent' = nagent + 1
    /\ \E raw \in RetryLines :
         Send(h, LineEvent(trim_end_matches_nl(raw)))
    /\ nlines' = [nlines EXCEPT ![h] = @ + 1]
    /\ wpc' = [wpc EXCEPT ![h] = "wait"]
    /\ rdr' = [rdr EXCEPT ![h] = [out |-> "run", err |-> "run"]]
    /\ UNCHANGED <<wargv, wstatus, nspawned, app_vars, env_vars, record, display_items,
                   normalized, call, result, returned, user_vars, app_hist>>

NextRetry ==
    \/ FirstPrompt
    \/ \E h \in Handles : ToRetryLine(h) \/ ToExit(h)
    \/ Drain
    \/ ToggleViewKey

SpecRetry == InitAgent /\ [][NextRetry]_vars

\* ---------------------------------------------------------------- C37
\* the main loop handles a line of an exec process
HandlesExecLine ==
    /\ HandlesEvent
    /\ PolledEvent.kind = "Line"
    /\ PolledProc.kind = "CodexExec"

\* the step withdraws a flag
Downgrades ==
    \/ codex_sandbox_supported' # codex_sandbox_supported
    \/ codex_approval_supported' # codex_approval_supported

\* the application after the notice of the flag the step withdraws
Noticed ==
    codex_log_action(Cur, IF codex_sandbox_supported' # codex_sandbox_supported
                          THEN NoticeSandbox ELSE NoticeApproval)

\* the line that withdraws a flag adds the notice of the negotiator to the
\* log and nothing else; the marks are cleared by the exit of an exec
\* process and by nothing else
ConsumedAndCleared ==
    /\ HandlesExecLine /\ Downgrades =>
         /\ codex_log' = Noticed.codex_log
         /\ log' = Noticed.log
         /\ codex_assistant_buffer' = codex_assistant_buffer
         /\ Marked'
    /\ Marked /\ ~Marked' => ObservesExitOf("CodexExec")
    /\ ObservesExitOf("CodexExec") => ~Marked'

\* the statement as written: under a mark every line of the agent leaves
\* the logs and the assistant buffer as they are
C37_MarkedLinesDiscarded ==
    [][/\ ConsumedAndCleared
       /\ HandlesExecLine /\ Marked =>
            UNCHANGED <<log, codex_log, codex_assistant_buffer>>]_vars

\* C37: the line that withdraws a flag is consumed by the negotiator, which
\* logs its notice and nothing else; under a mark every line of the agent
\* that does not itself withdraw the other flag leaves the logs and the
\* assistant buffer as they are; only the exit of an exec process clears
\* the marks
C37_MarkedLinesDiscardedUnlessDowngrade ==
    [][/\ ConsumedAndCleared
       /\ HandlesExecLine /\ Marked /\ ~Downgrades =>
            UNCHANGED <<log, codex_log, codex_assistant_buffer>>]_vars

\* two lines of the exec process have been handled: the first withdrew
\* --sandbox, the second, under the mark, left the notice and its blank line the last
\* entries of the log
C37_Witness ==
    /\ nspawned = 2
    /\ nlines[2] = 2
    /\ chan[2] = << >>
    /\ wpc[2] = "wait"
    /\ codex_sandbox_supported = Some(FALSE)
    /\ codex_approval_supported # Some(FALSE)
    /\ codex_retry_without_sandbox
    /\ ~codex_retry_without_approval
    /\ Len(codex_log) >= 2
    /\ codex_log[Len(codex_log) - 1].text = NoticeSandbox
    /\ codex_log[Len(codex_log)].text = << >>

\* ============================================================ install once
\* ui/mod.rs: the requests for an install: run_codex and action_codex_login
\* without force, action_codex_install (Ctrl+I) with force.

\* action_codex_login once the agent is there or its install is under way
login_codex(S, E) ==
    spawn_process(
        codex_log_ui(
            IF ~E.device_auth
            THEN codex_log_ui(
                     codex_log_ui(S, <<"Login Codex : navigateur/Device auth selon config.">>),
                     <<"Astuce: si le navigateur ne s'ouvre pas, definis USBIDE_CODEX_DEVICE_AUTH=1 puis relance Ctrl+K.">>)
            ELSE codex_log_ui(S, <<"Login Codex : navigateur/Device auth selon config.">>),
            <<"$">> \o join_sp(codex_login_argv(E.device_auth))),
        codex_login_argv(E.device_auth), "login Codex", "Codex", "CodexLogin")

action_codex_login(S, E) ==
    IF E.cli THEN login_codex(S, E)
    ELSE IF ~ensure_node_available(S, E, "Codex").r
    THEN ensure_node_available(S, E, "Codex").s
    ELSE IF ~install_codex(ensure_node_available(S, E, "Codex").s, E, FALSE, "Codex").r
    THEN install_codex(ensure_node_available(S, E, "Codex").s, E, FALSE, "Codex").s
    ELSE login_codex(install_codex(ensure_node_available(S, E, "Codex").s, E, FALSE,
                                   "Codex").s, E)

\* a key of the Codex panel: Ctrl+I or Ctrl+K
InstallKey(fn, S) ==
    /\ main_pc = "idle"
    /\ nui < MaxUserActions
    /\ S.nspawned <= MaxSpawns
    /\ Commit(S)
    /\ nui' = nui + 1
    /\ call' = [fn |-> fn]
    /\ UNCHANGED <<env_vars, record, display_items, normalized, nagent, result, returned,
                   nprompts, ncalls, last_argv>>

ForceInstall == InstallKey("action_codex_install", action_codex_install(Cur, Env))

Login == InstallKey("action_codex_login", action_codex_login(Cur, Env))

NextInstallOnce ==
    \/ Threads
    \/ \E h \in Handles : ToInstalled(h)
    \/ Drain
    \/ RunCodex
    \/ ForceInstall
    \/ Login

SpecInstallOnce == InitInstall /\ [][NextInstallOnce]_vars

\* ---------------------------------------------------------------- C38
\* the install processes the step spawns
NewInstalls == { h \in (nspawned + 1)..nspawned' : contains(wargv'[h], Str("install")) }

\* the step is the forced install of Ctrl+I
ForcedStep == nui' = nui + 1 /\ call'.fn = "action_codex_install"

\* the step is run_codex on a prompt
PromptStep == nprompts' = nprompts + 1

\* the step is a request without force while the agent is not installed:
\* run_codex or action_codex_login calls install_codex(false, ..)
RequestStep ==
    /\ ~fs_codex
    /\ fs_node
    /\ PromptStep \/ (nui' = nui + 1 /\ call'.fn = "action_codex_login")

\* C38: a step that spawns an install process without force spawns one,
\* finds the install not yet attempted and leaves it attempted, and the
\* attempt is never forgotten, so that no second one follows; a request
\* without force after an attempt spawns no process, and when it comes
\* from run_codex the pending slot is left as it was, without the prompt
C38_OneInstallWithoutForce ==
    [][/\ NewInstalls # { } /\ ~ForcedStep =>
            /\ ~codex_install_attempted
            /\ codex_install_attempted'
            /\ Cardinality(NewInstalls) = 1
            /\ RequestStep
       /\ codex_install_attempted => codex_install_attempted'
       /\ RequestStep /\ codex_install_attempted =>
            /\ nspawned' = nspawned
            /\ running' = running
            /\ pending_codex_prompt' = pending_codex_prompt
            /\ PromptStep => pending_codex_prompt' # Some(Prompt(nprompts'))]_vars

\* the first prompt has spawned the install, which has ended without the
\* agent being there; the second prompt was refused: no second process,
\* the slot still holds the first prompt
C38_Witness ==
    /\ nprompts = 2
    /\ nui = 0
    /\ nspawned = 1
    /\ wpc[1] = "joined"
    /\ ~fs_codex
    /\ codex_install_attempted
    /\ pending_codex_prompt = Some(Prompt(1))

\* a prompt refused after a forced install
C38_WitnessAfterForce ==
    /\ nprompts = 1
    /\ call = [fn |-> "action_codex_install"]
    /\ nspawned = 1
    /\ ~fs_codex
    /\ codex_install_attempted
    /\ pending_codex_prompt = None

\* ============================================================ the two pipes
\* process/mod.rs:90-128: the two readers of a child, line by line.

\* a byte sequence that is not UTF-8
NotUtf8 == "\\xff"

\* String::from_utf8 of the bytes read_line has read
is_utf8(raw) == \A i \in 1..Len(raw) : raw[i] # NotUtf8

\* the commands of a caller that runs one command at a time
StreamCommands ==
    { <<"printf 'o1\\no2\\r\\n'; printf 'e1\\ne2' >&2">>,
      <<"printf 'x\\n\\nx\\n'; printf 'x\\n' >&2">>,
      <<"printf 'o1\\n\\xff\\no2\\n'; printf 'e1\\n' >&2">> }

\* what the child of an argv writes to its stdout and to its stderr, line by
\* line, terminators included
ChildOutput(argv) ==
    IF argv = << >> \/ Len(argv) < 3 THEN [out |-> << >>, err |-> << >>]
    ELSE IF argv[3] = <<"printf 'o1\\no2\\r\\n'; printf 'e1\\ne2' >&2">>
    THEN [out |-> << <<"o1", "\n">>, <<"o2", "\r", "\n">> >>,
          err |-> << <<"e1", "\n">>, <<"e2">> >>]
    ELSE IF argv[3] = <<"printf 'x\\n\\nx\\n'; printf 'x\\n' >&2">>
    THEN [out |-> << <<"x", "\n">>, <<"\n">>, <<"x", "\n">> >>,
          err |-> << <<"x", "\n">> >>]
    ELSE IF argv[3] = <<"printf 'o1\\n\\xff\\no2\\n'; printf 'e1\\n' >&2">>
    THEN [out |-> << <<"o1", "\n">>, <<NotUtf8, "\n">>, <<"o2", "\n">> >>,
          err |-> << <<"e1", "\n">> >>]
    ELSE [out |-> << >>, err |-> << >>]

\* nlines[h] counts the lines read from the two pipes of h: one for a line
\* of stderr, StreamBase for a line of stdout
StreamBase ==
    1 + Len(ChildOutput(<<Str("sh"), Str("-lc"),
                          <<"printf 'x\\n\\nx\\n'; printf 'x\\n' >&2">> >>).out)

lines_read(h, st) == IF st = "out" THEN nlines[h] \div StreamBase ELSE nlines[h] % StreamBase

\* a reader thread: read_line returned Ok(n > 0); the line is sent without
\* its terminator
PipeLine(h, st) ==
    /\ rdr[h][st] = "run"
    /\ lines_read(h, st) < Len(ChildOutput(wargv[h])[st])
    /\ is_utf8(ChildOutput(wargv[h])[st][lines_read(h, st) + 1])
    /\ Send(h, LineEvent(trim_end_matches_nl(ChildOutput(wargv[h])[st][lines_read(h, st) + 1])))
    /\ nlines' = [nlines EXCEPT ![h] = IF st = "out" THEN @ + StreamBase ELSE @ + 1]
    /\ UNCHANGED <<wpc, wargv, wstatus, rdr, nspawned, app_vars, env_vars, norm_vars, user_vars, app_hist>>

\* a reader thread: read_line returned Err (the bytes are not UTF-8); the
\* loop is left and the thread ends
PipeErr(h, st) ==
    /\ rdr[h][st] = "run"
    /\ lines_read(h, st) < Len(ChildOutput(wargv[h])[st])
    /\ ~is_utf8(ChildOutput(wargv[h])[st][lines_read(h, st) + 1])
    /\ rdr' = [rdr EXCEPT ![h][st] = "done"]
    /\ UNCHANGED <<wpc, wargv, wstatus, nlines, chan, nspawned, app_vars, env_vars, norm_vars, user_vars, hist_vars>>

\* a reader thread: read_line returned Ok(0), the child has closed the
\* stream; the thread ends
PipeEof(h, st) ==
    /\ rdr[h][st] = "run"
    /\ lines_read(h, st) = Len(ChildOutput(wargv[h])[st])
    /\ rdr' = [rdr EXCEPT ![h][st] = "done"]
    /\ UNCHANGED <<wpc, wargv, wstatus, nlines, chan, nspawned, app_vars, env_vars, norm_vars, user_vars, hist_vars>>

\* run_shell on a command, no process running
StreamCall ==
    \E cmd \in StreamCommands :
        /\ main_pc = "idle"
        /\ running = << >>
        /\ ncalls < MaxEngineCalls
        /\ Commit(run_shell(Cur, cmd))
        /\ ncalls' = ncalls + 1
        /\ last_argv' = << Str("sh"), Str("-lc"), cmd >>
        /\ UNCHANGED <<env_vars, norm_vars, nui, nprompts>>

NextStreams ==
    \/ StreamCall
    \/ \E h \in Handles : Worker(h)
    \/ \E h \in Handles : \E st \in Streams : PipeLine(h, st)
    \/ \E h \in Handles : \E st \in Streams : PipeErr(h, st)
    \/ \E h \in Handles : \E st \in Streams : PipeEof(h, st)
    \/ DrainSteps

SpecStreams == InitEngine /\ [][NextStreams]_vars

\* ---------------------------------------------------------------- C39
\* the main loop is about to receive the Exit event of a handle
ExitNext ==
    /\ main_pc = "poll"
    /\ active # << >>
    /\ chan[Head(active).handle] # << >>
    /\ Head(chan[Head(active).handle]).kind = "Exit"

\* the lines the child of h has written to a stream, without terminators
Emitted(h, st) ==
    IF rdr[h][st] = "none" THEN << >>
    ELSE [i \in 1..Len(ChildOutput(wargv[h])[st]) |->
             trim_end_matches_nl(ChildOutput(wargv[h])[st][i])]

\* the entry of the main log that echoes the latest command
LastCommand ==
    CHOOSE i \in 1..Len(log) :
        /\ log[i].text # << >> /\ log[i].text[1] = "$"
        /\ \A j \in (i + 1)..Len(log) : log[j].text = << >> \/ log[j].text[1] # "$"

\* the texts of the Line events received since, as the main log shows them
ReceivedLines == [i \in 1..(Len(log) - LastCommand) |-> log[LastCommand + i].text]

\* r is a and b interleaved
RECURSIVE IsInterleaving(_, _, _)
IsInterleaving(r, a, b) ==
    IF r = << >> THEN a = << >> /\ b = << >>
    ELSE \/ a # << >> /\ Head(a) = Head(r) /\ IsInterleaving(Tail(r), Tail(a), b)
         \/ b # << >> /\ Head(b) = Head(r) /\ IsInterleaving(Tail(r), a, Tail(b))

\* C39: when the Exit event of a handle is received, the Line events
\* received before it are the lines its child wrote to stdout and those it
\* wrote to stderr, each stream in its order, interleaved: none lost, none
\* twice
C39_LinesReceivedBeforeExit ==
    ExitNext =>
        IsInterleaving(ReceivedLines, Emitted(Head(active).handle, "out"),
                       Emitted(Head(active).handle, "err"))

\* the same of a child whose output is UTF-8 throughout
C39_Utf8LinesReceivedBeforeExit ==
    (/\ ExitNext
     /\ \A st \in Streams :
            \A i \in 1..Len(ChildOutput(wargv[Head(active).handle])[st]) :
                is_utf8(ChildOutput(wargv[Head(active).handle])[st][i]))
        => IsInterleaving(ReceivedLines, Emitted(Head(active).handle, "out"),
                          Emitted(Head(active).handle, "err"))

\* the Exit of a child that wrote two lines to each stream is next, the
\* four lines received, a line of stderr first
C39_Witness ==
    /\ ExitNext
    /\ ReceivedLines = << <<"e1">>, <<"o1">>, <<"o2">>, <<"e2">> >>

\* the Exit of the child that wrote bytes that are not UTF-8 is next: the
\* line after them was never received
C39_WitnessLost ==
    /\ ExitNext
    /\ Len(Emitted(Head(active).handle, "out")) = 3
    /\ ReceivedLines \in { << <<"o1">>, <<"e1">> >>, << <<"e1">>, <<"o1">> >> }

\* ============================================================ the log windows
\* ui/mod.rs:782-795 and gui/mod.rs:785-801: push_log, the same in the two
\* front ends but for the dirty flag of the GUI, which nothing here reads.

\* the most lines of one message
MaxPushed == 3

\* a log of n lines, the output of a command that counts
counted(n) == [i \in 1..n |-> [text |-> << ToString(i) >>, style |-> "default"]]

\* the App with its two logs n and m lines long
logged(n, m) == [InitApp EXCEPT !.log = counted(n), !.codex_log = counted(m)]

\* a message of k lines
RECURSIVE message(_)
message(k) == IF k = 1 THEN <<"a">> ELSE message(k - 1) \o <<"\n", "a">>

\* the lengths of a log around the limit
LogLengths == { 0 } \cup { LOG_LIMIT - k : k \in 0..MaxPushed }

PushCalls ==
    { [fn |-> "push_log", main |-> n, codex |-> m, target |-> target,
       msg |-> message(k), style |-> style] :
          n \in LogLengths, m \in { 0, LOG_LIMIT }, target \in { "Main", "Codex" },
          k \in 1..MaxPushed, style \in { "default", "red" } }

InitPushLog ==
    /\ InitCalls
    /\ call \in { c \in PushCalls : c.main = 0 /\ c.codex = 0 }

\* the two logs of an App
logs_of(S) == [Main |-> S.log, Codex |-> S.codex_log]

CallPushLog ==
    /\ call.fn = "push_log"
    /\ Returns(logs_of(push_log(logged(call.main, call.codex), call.target, call.msg,
                                call.style)))

\* the next call is made on other logs, or with other arguments
NextPushCall ==
    /\ call.fn = "push_log"
    /\ \E c \in PushCalls :
        /\ (c.main = call.main /\ c.codex = call.codex)
               \/ (c.target = call.target /\ c.msg = call.msg /\ c.style = call.style)
        /\ Calls(c)

NextPushLog == CallPushLog \/ NextPushCall

SpecPushLog == InitPushLog /\ [][NextPushLog]_vars

\* ---------------------------------------------------------------- C40
\* push_log has returned
Pushed == returned /\ call.fn = "push_log"

\* the log of the target before the call, then the lines of the message
WithMessage ==
    logs_of(logged(call.main, call.codex))[call.target]
        \o styled_lines(split_nl(call.msg, << >>), call.style)

\* after is the end of all, no longer than the limit and no shorter than
\* the limit allows
IsRecentOf(after, all) ==
    /\ Len(after) <= LOG_LIMIT
    /\ Len(after) = (IF Len(all) > LOG_LIMIT THEN LOG_LIMIT ELSE Len(all))
    /\ \A i \in 1..Len(after) : after[i] = all[Len(all) - Len(after) + i]

\* C40: after a push_log call each of the two logs holds at most LOG_LIMIT
\* lines; the log of the target is the lines it held followed by those of
\* the message, the oldest removed beyond the limit and the most recent
\* LOG_LIMIT kept in their order; the other log is as it was
C40_LogsWithinLimit ==
    Pushed =>
        /\ Len(result.Main) <= LOG_LIMIT
        /\ Len(result.Codex) <= LOG_LIMIT
        /\ \E all \in { WithMessage } : IsRecentOf(result[call.target], all)
        /\ \A other \in { "Main", "Codex" } \ { call.target } :
               result[other] = logs_of(logged(call.main, call.codex))[other]

\* two lines pushed on a full main log: the two oldest lines are gone, the
\* third is now the first, the message is at the end
C40_Witness ==
    /\ Pushed
    /\ call.target = "Main"
    /\ call.main = LOG_LIMIT
    /\ call.msg = <<"a", "\n", "a">>
    /\ Len(result.Main) = LOG_LIMIT
    /\ result.Main[1].text = << "3" >>
    /\ result.Main[LOG_LIMIT - 2].text = << ToString(LOG_LIMIT) >>
    /\ result.Main[LOG_LIMIT].text = << "a" >>

====
